---------------------------- MODULE Spec2Model ----------------------------
(***************************************************************************)
(* A model of the Catan rules engine (CatanGameEngine), its data types     *)
(* (game-types.js) and its board generator (board-generator.js).           *)
(*                                                                         *)
(* The engine's whole state is the object this.gameState; the model holds  *)
(* it in the variable gameState, a record with the same fields.  Every     *)
(* command of the engine is one action.  A command that throws leaves in   *)
(* gameState whatever the code had written before the throw.               *)
(***************************************************************************)
EXTENDS Integers, Sequences, FiniteSets, TLC

(***************************************************************************)
(* Bounds of the model.                                                    *)
(***************************************************************************)
\* number of players of the game (the constructor's numPlayers)
NumPlayers == 2
\* endTurn is not taken once turnNumber has reached this value
MaxTurns == 5
\* settings.victoryPointsToWin of the modelled game (the configured
\* threshold; the engine's default is 10)
VictoryPointsToWin == 4

(***************************************************************************)
(* Constants of game-types.js                                              *)
(***************************************************************************)
RESOURCES == <<"wood", "brick", "sheep", "wheat", "ore">>

ResourceSet == {RESOURCES[i] : i \in 1..Len(RESOURCES)}

NoResources == [r \in ResourceSet |-> 0]

BUILDING_COSTS ==
    [settlement      |-> [NoResources EXCEPT !.wood = 1, !.brick = 1, !.sheep = 1, !.wheat = 1],
     city            |-> [NoResources EXCEPT !.ore = 3, !.wheat = 2],
     road            |-> [NoResources EXCEPT !.wood = 1, !.brick = 1],
     developmentCard |-> [NoResources EXCEPT !.ore = 1, !.sheep = 1, !.wheat = 1]]

BUILDING_LIMITS == [settlements |-> 5, cities |-> 4, roads |-> 15]

VICTORY_POINT_VALUES ==
    [settlement |-> 1, city |-> 2, longestRoad |-> 2, largestArmy |-> 2,
     victoryPointCard |-> 1]

\* JavaScript's null in a field that otherwise holds an id or a number
\* (owner, road, gameWinner, lastDiceRoll, longestRoadPlayer, ...)
null == -1
\* the value of node.building when nothing is built (null in the code)
noBuilding == "null"
\* In player.developmentCards a count is a number >= 0; NaN and undefined
\* (the value of a key the object does not have) are kept apart from them
NaN == -2
undefined == -3

RECURSIVE Fill(_, _)
\* Array(n).fill(x)
Fill(n, x) == IF n = 0 THEN <<>> ELSE <<x>> \o Fill(n - 1, x)

DEV_CARD_DECK ==
    Fill(14, "knight") \o Fill(2, "road_building") \o Fill(2, "monopoly")
        \o Fill(2, "year_of_plenty") \o Fill(5, "victory_point")

(***************************************************************************)
(* Board generation (board-generator.js).  Pixel coordinates are kept as   *)
(* integers scaled by Scale; Math.sqrt(3) is Sqrt3Scaled / Scale.          *)
(***************************************************************************)
HEX_SIZE == 48
BOARD_CENTER_X == 300
BOARD_CENTER_Y == 300
Scale == 1000000
Sqrt3Scaled == 1732051

\* The hexes of the modelled board: a fragment of STANDARD_HEX_LAYOUT,
\* the centre hex and four hexes below and right of it, in layout order.
HexLayout == << [q |-> 0, r |-> 0], [q |-> 1, r |-> 0],
                [q |-> 0, r |-> 1], [q |-> 1, r |-> 1], [q |-> 0, r |-> 2] >>

NumTiles == Len(HexLayout)
TileIds == 0..(NumTiles - 1)

\* Math.round of a scaled number
Round(xs) == (xs + (Scale \div 2)) \div Scale

\* axialToPixel: the centre of hex (q, r), scaled
axialToPixel(q, r) ==
    [x |-> (HEX_SIZE * Sqrt3Scaled * (2 * q + r)) \div 2 + BOARD_CENTER_X * Scale,
     y |-> ((HEX_SIZE * 3 * r) \div 2 + BOARD_CENTER_Y) * Scale]

\* size * cos(60 i - 30 degrees) and size * sin(60 i - 30 degrees), scaled
CornerDx(i) ==
    CASE i \in {0, 1} -> (HEX_SIZE * Sqrt3Scaled) \div 2
      [] i \in {2, 5} -> 0
      [] i \in {3, 4} -> 0 - ((HEX_SIZE * Sqrt3Scaled) \div 2)

CornerDy(i) ==
    CASE i \in {1, 3} -> (HEX_SIZE \div 2) * Scale
      [] i = 2        -> HEX_SIZE * Scale
      [] i \in {0, 4} -> 0 - (HEX_SIZE \div 2) * Scale
      [] i = 5        -> 0 - HEX_SIZE * Scale

\* getHexCorners followed by the rounding of the map key `${x}:${y}`
HexCornerKey(hex, i) ==
    LET c == axialToPixel(hex.q, hex.r)
    IN  << Round(c.x + CornerDx(i)), Round(c.y + CornerDy(i)) >>

CornerKey(tileId, i) == HexCornerKey(HexLayout[tileId + 1], i)

\* position of key k in the sequence of keys, 0 when absent
IndexOf(seq, k) ==
    IF \E i \in 1..Len(seq) : seq[i] = k
    THEN CHOOSE i \in 1..Len(seq) : seq[i] = k /\ \A j \in 1..(i - 1) : seq[j] # k
    ELSE 0

\* generateNodesAndEdges walks the corners of the tiles in steps
\* 1 .. 6 * NumTiles: step s is corner (s - 1) % 6 of tile (s - 1) \div 6
CornerSteps == 1..(6 * NumTiles)
StepTile(s) == (s - 1) \div 6
StepCorner(s) == (s - 1) % 6

\* the map key of the corner each step visits
StepKeys == [s \in CornerSteps |-> CornerKey(StepTile(s), StepCorner(s))]

\* the steps at which a Map filled with keys[1], keys[2], ... does not yet
\* hold the key: an entry is created
FirstSteps(keys) == {s \in DOMAIN keys : \A j \in 1..(s - 1) : keys[j] # keys[s]}

\* values[s] for the steps s in steps, in ascending order of s
InsertionOrder(values, steps) ==
    [i \in 1..Cardinality(steps) |->
        values[CHOOSE s \in steps : Cardinality({j \in steps : j <= s}) = i]]

\* the distinct keys in the order the Map received them
Distinct(keys) == InsertionOrder(keys, FirstSteps(keys))

\* generateNodesAndEdges, first loop: the keys of the nodes in creation
\* order (node id = position - 1)
NodeKeys == Distinct(StepKeys)

NumNodes == Len(NodeKeys)
NodeIds == 0..(NumNodes - 1)

\* nodeMap.get(key).id for the key of every step
NodesOf(keys) == [s \in DOMAIN keys |-> IndexOf(Distinct(keys), keys[s]) - 1]

StepNodes == NodesOf(StepKeys)

\* nodeMap.get(key) for corner i of a tile
CornerNode(tileId, i) == StepNodes[6 * tileId + i + 1]

\* node.adjacentTiles of every node: the tiles one of whose corners it is
AdjacentTilesTable ==
    [n \in NodeIds |-> {t \in TileIds : \E i \in 0..5 : CornerNode(t, i) = n}]

AdjacentTiles(n) == AdjacentTilesTable[n]

\* generateNodesAndEdges, second loop: the pair <<nodeA, nodeB>> each step
\* joins, corner i with corner (i + 1) % 6 of the same tile
PairsOf(nodes) ==
    [s \in DOMAIN nodes |->
        << nodes[s], nodes[6 * StepTile(s) + ((StepCorner(s) + 1) % 6) + 1] >>]

\* the edgeMap key `${Math.min(a, b)}-${Math.max(a, b)}` of every pair
MinMaxKeys(pairs) ==
    [s \in DOMAIN pairs |->
        IF pairs[s][1] <= pairs[s][2] THEN << pairs[s][1], pairs[s][2] >>
        ELSE << pairs[s][2], pairs[s][1] >>]

\* the pairs for which an edge is created, in creation order
EdgesOf(pairs) == InsertionOrder(pairs, FirstSteps(MinMaxKeys(pairs)))

\* the edges in creation order (edge id = position - 1), as <<fromNode, toNode>>
EdgeList == EdgesOf(PairsOf(StepNodes))

NumEdges == Len(EdgeList)
EdgeIds == 0..(NumEdges - 1)

fromNode(e) == EdgeList[e + 1][1]
toNode(e) == EdgeList[e + 1][2]

\* node.neighborNodes of every node: filled from the edges as they are created
NeighborNodesTable ==
    [n \in NodeIds |->
        {fromNode(e) : e \in {x \in EdgeIds : toNode(x) = n}}
            \cup {toNode(e) : e \in {x \in EdgeIds : fromNode(x) = n}}]

NeighborNodes(n) == NeighborNodesTable[n]

(***************************************************************************)
(* Inputs: the arguments the commands are called with.  Each set holds an  *)
(* id that names nothing (one past the last id).                           *)
(***************************************************************************)
PlayerIds == 0..(NumPlayers - 1)

NodeArgs == {1, 3, 6, 8, 12, 14, NumNodes}
EdgeArgs == {2, 6, 7, 14, 16, NumEdges}
TileArgs == {1, NumTiles}
PlayerArgs == PlayerIds \cup {NumPlayers}
\* moveRobber's targetPlayerId: a player, an id that names no player, or none
StealArgs == {0, NumPlayers, null}
\* the faces the two dice show: totals 6 and 7
Die1Faces == {3}
Die2Faces == {3, 4}

\* generateTiles: the resources and tokens the shuffles gave the tiles of
\* the fragment (the desert has no token)
TileLayouts ==
    { << [resource |-> "desert", token |-> null],
         [resource |-> "wheat",  token |-> 6],
         [resource |-> "ore",    token |-> 6],
         [resource |-> "sheep",  token |-> 6],
         [resource |-> "wood",   token |-> 8] >>,
      << [resource |-> "wheat",  token |-> 6],
         [resource |-> "wood",   token |-> 6],
         [resource |-> "brick",  token |-> 6],
         [resource |-> "sheep",  token |-> 6],
         [resource |-> "desert", token |-> null] >> }

\* the shuffled deck: DEV_CARD_DECK cut at k (its last card is drawn first)
DeckCuts == {0}
CutDeck(k) == SubSeq(DEV_CARD_DECK, k + 1, Len(DEV_CARD_DECK)) \o SubSeq(DEV_CARD_DECK, 1, k)

(***************************************************************************)
(* The state.                                                              *)
(*   gameState  the engine's this.gameState                                *)
(*   call       the command that last returned normally, and whether a    *)
(*              command has since thrown part-way through its writes       *)
(*   setupOrder history: <<piece, player>> of every initial placement      *)
(*   vpDrawn    history: victory-point cards each player has drawn         *)
(*   activeTrades  the TradingManager's offers, in the order proposed;     *)
(*              an offer's id is its position, inMap tells whether the    *)
(*              Map still holds it, age is the time since its timestamp    *)
(*   activeOffers  the EnhancedTradingSystem's offers, kept the same way   *)
(*   suspended  the commands waiting inside emit() for their listeners to  *)
(*              return, innermost first                                    *)
(*   portAccess the EnhancedTradingSystem's Map playerId -> ports          *)
(*   generation the progress of generateNodesAndEdges on the standard      *)
(*              layout: its step, nodeMap and edgeMap                      *)
(*   snapshot   the object getGameState last returned: the top-level       *)
(*              values it copied; its objects are the engine's own         *)
(***************************************************************************)
VARIABLES gameState, call, setupOrder, vpDrawn, activeTrades, activeOffers,
          suspended, portAccess, generation, snapshot

vars == <<gameState, call, setupOrder, vpDrawn, activeTrades, activeOffers,
          suspended, portAccess, generation, snapshot>>

\* getGameState has not been called
NoSnapshot == [taken |-> FALSE]

\* new Map(): no player has an entry (get(playerId) || [] is empty)
NoPortAccess == [p \in PlayerIds |-> <<>>]

\* generateNodesAndEdges is not running
NotGenerating == [step |-> null, nodeKeys |-> <<>>, adjacentTiles |-> <<>>,
                  edges |-> <<>>, neighborNodes |-> <<>>]

\* createPlayer
createPlayer(id) ==
    [id |-> id,
     resources |-> NoResources,
     settlements |-> <<>>,
     cities |-> <<>>,
     roads |-> <<>>,
     developmentCards |->
        [knight |-> 0, roadBuilding |-> 0, monopoly |-> 0, yearOfPlenty |-> 0,
         victoryPoint |-> 0,
         road_building |-> undefined, year_of_plenty |-> undefined,
         victory_point |-> undefined],
     knightsPlayed |-> 0,
     victoryPoints |-> 0,
     publicVictoryPoints |-> 0,
     hasPlayedDevCard |-> FALSE,
     mustDiscardCards |-> 0,
     buildingsRemaining |-> BUILDING_LIMITS]

\* createTile
createTile(id, resource, token) ==
    [id |-> id, resource |-> resource, token |-> token,
     hasRobber |-> FALSE, isBlocked |-> FALSE]

\* findDesertTile(tiles)?.id || 0
RobberStart(layout) ==
    IF \E i \in 1..Len(layout) : layout[i].resource = "desert"
    THEN (CHOOSE i \in 1..Len(layout) :
             /\ layout[i].resource = "desert"
             /\ \A j \in 1..(i - 1) : layout[j].resource # "desert") - 1
    ELSE 0

\* generateRandomBoard
generateRandomBoard(layout) ==
    [tiles |-> [t \in TileIds |-> createTile(t, layout[t + 1].resource, layout[t + 1].token)],
     nodes |-> [n \in NodeIds |-> [building |-> noBuilding, owner |-> null]],
     edges |-> [e \in EdgeIds |-> [road |-> null]],
     robberPosition |-> RobberStart(layout)]

\* createInitialGameState, then the constructor's board
createInitialGameState(layout, deck) ==
    [phase |-> "setup",
     turnPhase |-> "dice_roll",
     currentPlayer |-> 0,
     setupRound |-> 1,
     setupDirection |-> 1,
     turnNumber |-> 0,
     lastDiceRoll |-> null,
     gameWinner |-> null,
     board |-> generateRandomBoard(layout),
     players |-> [p \in PlayerIds |-> createPlayer(p)],
     developmentCardDeck |-> deck,
     longestRoadPlayer |-> null,
     longestRoadLength |-> 0,
     largestArmyPlayer |-> null,
     largestArmySize |-> 0,
     settings |-> [victoryPointsToWin |-> VictoryPointsToWin]]

Init ==
    /\ \E layout \in TileLayouts, k \in DeckCuts :
          gameState = createInitialGameState(layout, CutDeck(k))
    /\ call = [returned |-> "constructor", threw |-> FALSE]
    /\ setupOrder = <<>>
    /\ vpDrawn = [p \in PlayerIds |-> 0]
    /\ activeTrades = <<>>
    /\ activeOffers = <<>>
    /\ suspended = <<>>
    /\ portAccess = NoPortAccess
    /\ generation = NotGenerating
    /\ snapshot = NoSnapshot

(***************************************************************************)
(* Helpers of game-types.js and of the engine, as functions of the state   *)
(***************************************************************************)
getCurrentPlayer(gs) == gs.players[gs.currentPlayer]

calculateVictoryPoints(player) ==
    Len(player.settlements) * VICTORY_POINT_VALUES.settlement
      + Len(player.cities) * VICTORY_POINT_VALUES.city
      + player.developmentCards.victoryPoint * VICTORY_POINT_VALUES.victoryPointCard

calculatePublicVictoryPoints(player, gs) ==
    calculateVictoryPoints(player)
      - player.developmentCards.victoryPoint * VICTORY_POINT_VALUES.victoryPointCard
      + (IF gs.longestRoadPlayer = player.id THEN VICTORY_POINT_VALUES.longestRoad ELSE 0)
      + (IF gs.largestArmyPlayer = player.id THEN VICTORY_POINT_VALUES.largestArmy ELSE 0)

\* updateVictoryPoints(player): the state with player p's two totals rewritten
updateVictoryPoints(gs, p) ==
    [gs EXCEPT !.players[p].victoryPoints = calculateVictoryPoints(gs.players[p]),
               !.players[p].publicVictoryPoints = calculatePublicVictoryPoints(gs.players[p], gs)]

\* canAffordBuilding counting cards of any kind
canAffordBuildingInTotal(player, buildingType) ==
    LET Total(f) == f.wood + f.brick + f.sheep + f.wheat + f.ore
    IN  Total(player.resources) >= Total(BUILDING_COSTS[buildingType])

canAffordBuilding(player, buildingType) ==
    \A r \in ResourceSet : player.resources[r] >= BUILDING_COSTS[buildingType][r]

payForBuilding(player, buildingType) ==
    [r \in ResourceSet |-> player.resources[r] - BUILDING_COSTS[buildingType][r]]

RECURSIVE SumOver(_, _)
SumOver(f, S) ==
    IF S = {} THEN 0
    ELSE LET x == CHOOSE y \in S : TRUE IN f[x] + SumOver(f, S \ {x})

getTotalResources(player) == SumOver(player.resources, ResourceSet)

\* the edge object found by edges.find(...) between two nodes, as a set
EdgesBetween(a, b) ==
    {e \in EdgeIds : (fromNode(e) = a /\ toNode(e) = b) \/ (fromNode(e) = b /\ toNode(e) = a)}

isConnectedToRoadNetwork(gs, playerId, nodeId) ==
    \E nb \in NeighborNodes(nodeId) :
        \E e \in EdgesBetween(nodeId, nb) : gs.board.edges[e].road = playerId

\* canPlaceSettlement for a node id that names a node
\* canPlaceSettlement without the check of the neighbouring nodes
canPlaceSettlementNextDoor(gs, playerId, nodeId) ==
    /\ gs.board.nodes[nodeId].building = noBuilding
    /\ gs.players[playerId].buildingsRemaining.settlements > 0
    /\ gs.phase = "main_game" => isConnectedToRoadNetwork(gs, playerId, nodeId)

canPlaceSettlement(gs, playerId, nodeId) ==
    /\ gs.board.nodes[nodeId].building = noBuilding
    /\ ~ \E nb \in NeighborNodes(nodeId) : gs.board.nodes[nb].building # noBuilding
    /\ gs.players[playerId].buildingsRemaining.settlements > 0
    /\ (gs.phase = "main_game" => isConnectedToRoadNetwork(gs, playerId, nodeId))

isConnectedToPlayerNetwork(gs, playerId, edgeId) ==
    LET f == fromNode(edgeId)
        t == toNode(edgeId)
        HasBuilding(n) ==
            gs.board.nodes[n].building # noBuilding /\ gs.board.nodes[n].owner = playerId
        HasRoad(n, other) ==
            \E nb \in NeighborNodes(n) \ {other} :
                \E e \in EdgesBetween(n, nb) : gs.board.edges[e].road = playerId
    IN  HasBuilding(f) \/ HasBuilding(t) \/ HasRoad(f, t) \/ HasRoad(t, f)

\* canPlaceRoad for an edge id that names an edge
canPlaceRoad(gs, playerId, edgeId) ==
    /\ gs.board.edges[edgeId].road = null
    /\ gs.players[playerId].buildingsRemaining.roads > 0
    /\ isConnectedToPlayerNetwork(gs, playerId, edgeId)

\* a setup phase that ends with its first round
isSetupPhaseFirstRound(gs) == gs.phase = "setup" /\ gs.setupRound = 1

isSetupPhase(gs) == gs.phase = "setup"

getNextSetupAction(gs) ==
    LET player == getCurrentPlayer(gs)
    IN  IF Len(player.settlements) < gs.setupRound THEN "place_settlement"
        ELSE IF Len(player.roads) < gs.setupRound THEN "place_road"
        ELSE "end_turn"


\* grantInitialResources handing out two cards for every tile
grantInitialResourcesTwice(gs, p, settlementNodeId) ==
    [gs EXCEPT !.players[p].resources =
        [r \in ResourceSet |->
            @[r] + 2 * Cardinality({t \in AdjacentTiles(settlementNodeId) :
                                       gs.board.tiles[t].resource = r})]]

\* tile.resource !== 'desert' && tile.resource: a tile whose resource is one
\* of RESOURCES gives a card
grantInitialResources(gs, p, settlementNodeId) ==
    [gs EXCEPT !.players[p].resources =
        [r \in ResourceSet |->
            @[r] + Cardinality({t \in AdjacentTiles(settlementNodeId) :
                                   gs.board.tiles[t].resource = r})]]

\* startMainGame that ends the game instead of starting it
startMainGameOver(gs) ==
    [gs EXCEPT !.phase = "game_over", !.turnPhase = "dice_roll",
               !.currentPlayer = 0, !.turnNumber = 1]

startMainGame(gs) ==
    [gs EXCEPT !.phase = "main_game", !.turnPhase = "dice_roll",
               !.currentPlayer = 0, !.turnNumber = 1]

\* endSetupTurn that also steps back when it turns round
endSetupTurnStepsBack(gs) ==
    IF gs.setupRound = 1
    THEN IF gs.currentPlayer < NumPlayers - 1
         THEN [gs EXCEPT !.currentPlayer = @ + 1]
         ELSE [gs EXCEPT !.setupRound = 2, !.setupDirection = -1,
                         !.currentPlayer = @ - 1]
    ELSE IF gs.currentPlayer > 0
         THEN [gs EXCEPT !.currentPlayer = @ - 1]
         ELSE startMainGame(gs)

\* endSetupTurn that starts the main game one player early
endSetupTurnStartsEarly(gs) ==
    IF gs.setupRound = 1
    THEN IF gs.currentPlayer < NumPlayers - 1
         THEN [gs EXCEPT !.currentPlayer = @ + 1]
         ELSE [gs EXCEPT !.setupRound = 2, !.setupDirection = -1]
    ELSE IF gs.currentPlayer > 1
         THEN [gs EXCEPT !.currentPlayer = @ - 1]
         ELSE startMainGame(gs)

endSetupTurn(gs) ==
    IF gs.setupRound = 1
    THEN IF gs.currentPlayer < NumPlayers - 1
         THEN [gs EXCEPT !.currentPlayer = @ + 1]
         ELSE [gs EXCEPT !.setupRound = 2, !.setupDirection = -1]
    ELSE IF gs.currentPlayer > 0
         THEN [gs EXCEPT !.currentPlayer = @ - 1]
         ELSE startMainGame(gs)

Max(S) == CHOOSE x \in S : \A y \in S : y <= x

\* roadNetwork.get(n): the nodes joined to n by one of the player's roads
RoadNeighbors(gs, playerId, n) ==
    LET roads == gs.players[playerId].roads
        own == {roads[i] : i \in 1..Len(roads)}
    IN  {toNode(e) : e \in {x \in own : fromNode(x) = n}}
            \cup {fromNode(e) : e \in {x \in own : toNode(x) = n}}

RECURSIVE dfsLongestPathThroughBuildings(_, _, _, _)
\* dfsLongestPath without the check of the neighbour's building
dfsLongestPathThroughBuildings(gs, currentNode, visited, playerId) ==
    LET seen == visited \cup {currentNode}
        next == {nb \in RoadNeighbors(gs, playerId, currentNode) : nb \notin seen}
    IN  Max({0} \cup {1 + dfsLongestPathThroughBuildings(gs, nb, seen, playerId) : nb \in next})

RECURSIVE dfsLongestPath(_, _, _, _)
dfsLongestPath(gs, currentNode, visited, playerId) ==
    LET seen == visited \cup {currentNode}
        next == {nb \in RoadNeighbors(gs, playerId, currentNode) :
                    /\ nb \notin seen
                    /\ ~ (/\ gs.board.nodes[nb].building # noBuilding
                          /\ gs.board.nodes[nb].owner # playerId)}
    IN  Max({0} \cup {1 + dfsLongestPath(gs, nb, seen, playerId) : nb \in next})

calculateLongestRoadForPlayer(gs, playerId) ==
    LET roads == gs.players[playerId].roads
        starts == {fromNode(roads[i]) : i \in 1..Len(roads)}
                     \cup {toNode(roads[i]) : i \in 1..Len(roads)}
    IN  IF Len(roads) = 0 THEN 0
        ELSE Max({0} \cup {dfsLongestPath(gs, n, {}, playerId) : n \in starts})

RECURSIVE LongestRoadScan(_, _, _)
\* checkLongestRoad's loop over the players from p on; best = <<player, length>>
LongestRoadScan(gs, p, best) ==
    IF p = NumPlayers THEN best
    ELSE LET roadLength == calculateLongestRoadForPlayer(gs, p)
         IN  LongestRoadScan(gs, p + 1,
                 IF roadLength >= 5 /\ roadLength > best[2]
                 THEN <<p, roadLength>> ELSE best)

RECURSIVE UpdateAllVictoryPoints(_, _)
\* players.forEach(player => updateVictoryPoints(player)), from p on
UpdateAllVictoryPoints(gs, p) ==
    IF p = NumPlayers THEN gs
    ELSE UpdateAllVictoryPoints(updateVictoryPoints(gs, p), p + 1)

checkLongestRoad(gs) ==
    LET best == LongestRoadScan(gs, 0, <<null, 0>>)
    IN  IF best[1] # gs.longestRoadPlayer
        THEN UpdateAllVictoryPoints(
                 [gs EXCEPT !.longestRoadPlayer = best[1], !.longestRoadLength = best[2]], 0)
        ELSE gs

RECURSIVE checkVictoryFrom(_, _)
\* checkVictoryCondition's loop over the players from p on
checkVictoryFrom(gs, p) ==
    IF p = NumPlayers THEN gs
    ELSE LET g1 == updateVictoryPoints(gs, p)
             g2 == IF g1.players[p].victoryPoints >= g1.settings.victoryPointsToWin
                   THEN [g1 EXCEPT !.phase = "game_over", !.gameWinner = p]
                   ELSE g1
         IN  checkVictoryFrom(g2, p + 1)

checkVictoryCondition(gs) == checkVictoryFrom(gs, 0)

\* the cards one settlement or city on nodeId draws from a roll: one per
\* adjacent tile with that token that is not blocked
TileYield(gs, nodeId, diceRoll, r) ==
    Cardinality({t \in AdjacentTiles(nodeId) :
                    /\ gs.board.tiles[t].token = diceRoll
                    /\ ~gs.board.tiles[t].isBlocked
                    /\ gs.board.tiles[t].resource = r})

RECURSIVE SeqYield(_, _, _, _)
\* the forEach over a player's settlements (or cities)
SeqYield(gs, nodeSeq, diceRoll, r) ==
    IF nodeSeq = <<>> THEN 0
    ELSE TileYield(gs, Head(nodeSeq), diceRoll, r) + SeqYield(gs, Tail(nodeSeq), diceRoll, r)

\* what a city adds for each adjacent producing tile
CityYield(gs, nodeSeq, diceRoll, r) == SeqYield(gs, nodeSeq, diceRoll, r)

produceResources(gs, diceRoll) ==
    [gs EXCEPT !.players =
        [p \in PlayerIds |->
            [gs.players[p] EXCEPT !.resources =
                [r \in ResourceSet |->
                    @[r] + SeqYield(gs, gs.players[p].settlements, diceRoll, r)
                         + CityYield(gs, gs.players[p].cities, diceRoll, r)]]]]

\* the discard count handleRobberRoll gives a player
DiscardRequirement(player) ==
    IF getTotalResources(player) > 7 THEN getTotalResources(player) \div 2
    ELSE player.mustDiscardCards

handleRobberRoll(gs) ==
    LET flagged == [gs EXCEPT !.players =
                       [p \in PlayerIds |->
                           [gs.players[p] EXCEPT !.mustDiscardCards =
                               DiscardRequirement(gs.players[p])]]]
        playersNeedToDiscard ==
            Cardinality({p \in PlayerIds : getTotalResources(gs.players[p]) > 7})
    IN  IF playersNeedToDiscard > 0
        THEN [flagged EXCEPT !.turnPhase = "discard_cards"]
        ELSE [flagged EXCEPT !.turnPhase = "robber_placement"]

\* x++ on a field of developmentCards
Increment(v) == IF v \in {NaN, undefined} THEN NaN ELSE v + 1

(***************************************************************************)
(* Commands.  A command that throws before it has written anything leaves  *)
(* every variable as it was (Throw).  call.threw is set by a command that  *)
(* throws after it has written to gameState, and cleared by the next       *)
(* command that returns.                                                   *)
(***************************************************************************)
Throw == UNCHANGED vars

Return(command, gs) ==
    /\ call' = [returned |-> command, threw |-> FALSE]
    /\ gameState' = gs
    /\ UNCHANGED <<activeTrades, activeOffers, suspended, portAccess, generation, snapshot>>

placeInitialSettlement(nodeId) ==
    LET gs == gameState
        p == gs.currentPlayer
        placed == [gs EXCEPT !.players[p].settlements = Append(@, nodeId),
                             !.players[p].buildingsRemaining.settlements = @ - 1,
                             !.board.nodes[nodeId].building = "settlement",
                             !.board.nodes[nodeId].owner = p]
        granted == IF gs.setupRound = 2 THEN grantInitialResources(placed, p, nodeId)
                   ELSE placed
    IN  IF \/ ~isSetupPhase(gs)
           \/ getNextSetupAction(gs) # "place_settlement"
           \/ nodeId \notin NodeIds
           \/ ~canPlaceSettlement(gs, p, nodeId)
        THEN Throw
        ELSE /\ Return("placeInitialSettlement", updateVictoryPoints(granted, p))
             /\ setupOrder' = Append(setupOrder, <<"settlement", p>>)
             /\ UNCHANGED vpDrawn

placeInitialRoad(edgeId) ==
    LET gs == gameState
        p == gs.currentPlayer
        player == gs.players[p]
        lastSettlement == player.settlements[Len(player.settlements)]
        placed == [gs EXCEPT !.players[p].roads = Append(@, edgeId),
                             !.players[p].buildingsRemaining.roads = @ - 1,
                             !.board.edges[edgeId].road = p]
    IN  IF \/ ~isSetupPhase(gs)
           \/ getNextSetupAction(gs) # "place_road"
           \/ edgeId \notin EdgeIds
           \/ ~(fromNode(edgeId) = lastSettlement \/ toNode(edgeId) = lastSettlement)
           \/ gs.board.edges[edgeId].road # null
        THEN Throw
        ELSE /\ Return("placeInitialRoad",
                       IF getNextSetupAction(placed) = "end_turn"
                       THEN endSetupTurn(placed) ELSE placed)
             /\ setupOrder' = Append(setupOrder, <<"road", p>>)
             /\ UNCHANGED vpDrawn

\* rollDice's writes, all of them made before its first emit
rollResult(gs, total) ==
    LET rolled == [gs EXCEPT !.lastDiceRoll = total]
    IN  IF total = 7 THEN handleRobberRoll(rolled)
        ELSE [produceResources(rolled, total) EXCEPT !.turnPhase = "actions"]

\* rollDice when no listener of its events issues a command
rollDice(dice1, dice2) ==
    LET gs == gameState
    IN  IF gs.phase # "main_game" \/ gs.turnPhase # "dice_roll"
        THEN Throw
        ELSE /\ Return("rollDice", rollResult(gs, dice1 + dice2))
             /\ UNCHANGED <<setupOrder, vpDrawn>>

discardCards(playerId, cardsToDiscard) ==
    LET gs == gameState
        player == gs.players[playerId]
        totalDiscarded == SumOver(cardsToDiscard, ResourceSet)
        discarded == [gs EXCEPT !.players[playerId].resources =
                                    [r \in ResourceSet |-> @[r] - cardsToDiscard[r]],
                                !.players[playerId].mustDiscardCards = 0]
        playersStillDiscarding ==
            \E q \in PlayerIds : discarded.players[q].mustDiscardCards > 0
    IN  IF \/ playerId \notin PlayerIds
           \/ player.mustDiscardCards = 0
           \/ totalDiscarded # player.mustDiscardCards
           \/ \E r \in ResourceSet : player.resources[r] < cardsToDiscard[r]
        THEN Throw
        ELSE /\ Return("discardCards",
                       IF playersStillDiscarding THEN discarded
                       ELSE [discarded EXCEPT !.turnPhase = "robber_placement"])
             /\ UNCHANGED <<setupOrder, vpDrawn>>

\* stealRandomCard, for a victim id that names a player: the states the
\* random draw can produce
StealOutcomes(gs, stealerPlayerId, victimPlayerId) ==
    LET victim == gs.players[victimPlayerId]
        available == {r \in ResourceSet : victim.resources[r] > 0}
    IN  IF available = {} THEN {gs}
        ELSE {[[gs EXCEPT !.players[victimPlayerId].resources[r] = @ - 1]
                  EXCEPT !.players[stealerPlayerId].resources[r] = @ + 1] : r \in available}

\* moveRobber up to the call of stealRandomCard
RobberMoved(gs, tileId) ==
    LET cleared == IF gs.board.robberPosition # null
                   THEN [gs EXCEPT !.board.tiles[gs.board.robberPosition].hasRobber = FALSE,
                                   !.board.tiles[gs.board.robberPosition].isBlocked = FALSE]
                   ELSE gs
    IN  [cleared EXCEPT !.board.robberPosition = tileId,
                        !.board.tiles[tileId].hasRobber = TRUE,
                        !.board.tiles[tileId].isBlocked = TRUE]

moveRobber(tileId, targetPlayerId) ==
    LET gs == gameState
        moved == RobberMoved(gs, tileId)
    IN  IF \/ gs.turnPhase # "robber_placement"
           \/ tileId \notin TileIds
           \/ tileId = gs.board.robberPosition
        THEN Throw
        ELSE IF targetPlayerId = null
        THEN /\ Return("moveRobber", [moved EXCEPT !.turnPhase = "actions"])
             /\ UNCHANGED <<setupOrder, vpDrawn>>
        ELSE IF targetPlayerId \notin PlayerIds
        THEN \* stealRandomCard reads players[targetPlayerId].resources and throws
             /\ gameState' = moved
             /\ call' = [call EXCEPT !.threw = TRUE]
             /\ UNCHANGED <<setupOrder, vpDrawn, activeTrades, activeOffers, suspended, portAccess, generation, snapshot>>
        ELSE /\ \E stolen \in StealOutcomes(moved, gs.currentPlayer, targetPlayerId) :
                    Return("moveRobber", [stolen EXCEPT !.turnPhase = "actions"])
             /\ UNCHANGED <<setupOrder, vpDrawn>>

buildSettlement(nodeId) ==
    LET gs == gameState
        p == gs.currentPlayer
        player == gs.players[p]
        placed == [gs EXCEPT !.players[p].resources = payForBuilding(player, "settlement"),
                             !.players[p].settlements = Append(@, nodeId),
                             !.players[p].buildingsRemaining.settlements = @ - 1,
                             !.board.nodes[nodeId].building = "settlement",
                             !.board.nodes[nodeId].owner = p]
    IN  IF \/ gs.turnPhase # "actions"
           \/ ~canAffordBuilding(player, "settlement")
           \/ nodeId \notin NodeIds
           \/ ~canPlaceSettlement(gs, p, nodeId)
        THEN Throw
        ELSE /\ Return("buildSettlement", checkLongestRoad(updateVictoryPoints(placed, p)))
             /\ UNCHANGED <<setupOrder, vpDrawn>>

\* a splice that takes nothing out of the list
RemoveNone(seq, x) == seq

\* settlements.splice(settlements.indexOf(nodeId), 1)
RemoveFirst(seq, x) ==
    LET i == IndexOf(seq, x)
    IN  IF i = 0 THEN SubSeq(seq, 1, Len(seq) - 1)
        ELSE SubSeq(seq, 1, i - 1) \o SubSeq(seq, i + 1, Len(seq))

\* buildCity without the settlement piece going back to the supply
buildCityPieceKept(nodeId) ==
    LET gs == gameState
        p == gs.currentPlayer
        player == gs.players[p]
        built == [gs EXCEPT !.players[p].resources = payForBuilding(player, "city"),
                            !.players[p].settlements = RemoveFirst(@, nodeId),
                            !.players[p].cities = Append(@, nodeId),
                            !.players[p].buildingsRemaining.cities = @ - 1,
                            !.board.nodes[nodeId].building = "city"]
    IN  IF \/ gs.turnPhase # "actions"
           \/ ~canAffordBuilding(player, "city")
           \/ nodeId \notin NodeIds
           \/ gs.board.nodes[nodeId].building # "settlement"
           \/ gs.board.nodes[nodeId].owner # p
           \/ player.buildingsRemaining.cities <= 0
        THEN Throw
        ELSE /\ Return("buildCity", updateVictoryPoints(built, p))
             /\ UNCHANGED <<setupOrder, vpDrawn>>

buildCity(nodeId) ==
    LET gs == gameState
        p == gs.currentPlayer
        player == gs.players[p]
        built == [gs EXCEPT !.players[p].resources = payForBuilding(player, "city"),
                            !.players[p].settlements = RemoveFirst(@, nodeId),
                            !.players[p].cities = Append(@, nodeId),
                            !.players[p].buildingsRemaining.settlements = @ + 1,
                            !.players[p].buildingsRemaining.cities = @ - 1,
                            !.board.nodes[nodeId].building = "city"]
    IN  IF \/ gs.turnPhase # "actions"
           \/ ~canAffordBuilding(player, "city")
           \/ nodeId \notin NodeIds
           \/ gs.board.nodes[nodeId].building # "settlement"
           \/ gs.board.nodes[nodeId].owner # p
           \/ player.buildingsRemaining.cities <= 0
        THEN Throw
        ELSE /\ Return("buildCity", updateVictoryPoints(built, p))
             /\ UNCHANGED <<setupOrder, vpDrawn>>

buildRoad(edgeId) ==
    LET gs == gameState
        p == gs.currentPlayer
        player == gs.players[p]
        placed == [gs EXCEPT !.players[p].resources = payForBuilding(player, "road"),
                             !.players[p].roads = Append(@, edgeId),
                             !.players[p].buildingsRemaining.roads = @ - 1,
                             !.board.edges[edgeId].road = p]
    IN  IF \/ gs.turnPhase # "actions"
           \/ ~canAffordBuilding(player, "road")
           \/ edgeId \notin EdgeIds
           \/ ~canPlaceRoad(gs, p, edgeId)
        THEN Throw
        ELSE /\ Return("buildRoad", checkLongestRoad(placed))
             /\ UNCHANGED <<setupOrder, vpDrawn>>

buyDevelopmentCard ==
    LET gs == gameState
        p == gs.currentPlayer
        player == gs.players[p]
        deck == gs.developmentCardDeck
        cardType == deck[Len(deck)]
        drawn == [gs EXCEPT !.players[p].resources = payForBuilding(player, "developmentCard"),
                            !.developmentCardDeck = SubSeq(deck, 1, Len(deck) - 1),
                            !.players[p].developmentCards[cardType] = Increment(@)]
    IN  IF \/ gs.turnPhase # "actions"
           \/ ~canAffordBuilding(player, "developmentCard")
           \/ Len(deck) = 0
        THEN Throw
        ELSE /\ Return("buyDevelopmentCard", updateVictoryPoints(drawn, p))
             /\ vpDrawn' = [vpDrawn EXCEPT ![p] = @ + (IF cardType = "victory_point" THEN 1 ELSE 0)]
             /\ UNCHANGED setupOrder

\* endTurn's guard
EndTurnLegal(gs) == gs.phase = "main_game"

\* endTurn up to emit('turnEnded'): the flags are reset and the turn passes
advanceTurn(gs) ==
    [gs EXCEPT !.players[gs.currentPlayer].hasPlayedDevCard = FALSE,
               !.currentPlayer = (gs.currentPlayer + 1) % NumPlayers,
               !.turnNumber = @ + 1,
               !.turnPhase = "dice_roll"]

\* endTurn when no listener of 'turnEnded' issues a command
endTurn ==
    LET gs == gameState
    IN  IF ~EndTurnLegal(gs)
        THEN Throw
        ELSE /\ gs.turnNumber < MaxTurns
             /\ Return("endTurn", checkVictoryCondition(advanceTurn(gs)))
             /\ UNCHANGED <<setupOrder, vpDrawn>>

\* the bundles discardCards is called with
Bundle(wheat, ore, sheep) ==
    [NoResources EXCEPT !.wheat = wheat, !.ore = ore, !.sheep = sheep]

DiscardArgs ==
    {Bundle(0, 4, 0), Bundle(2, 2, 0), Bundle(2, 3, 0), Bundle(0, 1, 4), Bundle(0, 1, 0)}

Next ==
    \/ \E nodeId \in NodeArgs : placeInitialSettlement(nodeId)
    \/ \E edgeId \in EdgeArgs : placeInitialRoad(edgeId)
    \/ \E dice1 \in Die1Faces, dice2 \in Die2Faces : rollDice(dice1, dice2)
    \/ \E playerId \in PlayerArgs, cards \in DiscardArgs : discardCards(playerId, cards)
    \/ \E tileId \in TileArgs, target \in StealArgs : moveRobber(tileId, target)
    \/ \E nodeId \in NodeArgs : buildSettlement(nodeId)
    \/ \E nodeId \in NodeArgs : buildCity(nodeId)
    \/ \E edgeId \in EdgeArgs : buildRoad(edgeId)
    \/ buyDevelopmentCard
    \/ endTurn

Spec == Init /\ [][Next]_vars

(***************************************************************************)
(* Road building from a position of the main game.  The position is what   *)
(* setup leaves on the board (two settlements and two roads per player,    *)
(* startMainGame's turn fields) with the hands the players have collected  *)
(* since; turnNumber is counted from the position on.  The dice show 1 + 1, *)
(* a total no tile carries, so the turns played from it produce nothing.   *)
(***************************************************************************)
\* each player's initial settlements and the road placed next to each
RoadPlacements ==
    << [settlements |-> <<3, 5>>,   roads |-> <<3, 5>>],
       [settlements |-> <<12, 17>>, roads |-> <<13, 21>>],
       [settlements |-> <<9, 13>>,  roads |-> <<10, 15>>] >>

\* the cards each player holds at the position
RoadHands ==
    << [NoResources EXCEPT !.wood = 4, !.brick = 4],
       [NoResources EXCEPT !.wood = 4, !.brick = 4, !.sheep = 1, !.wheat = 1],
       NoResources >>

RoadEdgeArgs == {0, 1, 2, 4, 8, 14, 20, 22}
RoadNodeArgs == {1}

\* the elements of a sequence
Range(seq) == {seq[i] : i \in 1..Len(seq)}

\* the state the placements leave: placeInitialSettlement and
\* placeInitialRoad for every player, then startMainGame
RoadPosition(layout) ==
    LET fresh == createInitialGameState(layout, CutDeck(0))
        placement(p) == RoadPlacements[p + 1]
        settler(n) == {p \in PlayerIds : n \in Range(placement(p).settlements)}
        builder(e) == {p \in PlayerIds : e \in Range(placement(p).roads)}
        placed ==
            [fresh EXCEPT
                !.setupRound = 2,
                !.setupDirection = -1,
                !.board.nodes = [n \in NodeIds |->
                    IF settler(n) # {}
                    THEN [building |-> "settlement", owner |-> CHOOSE p \in settler(n) : TRUE]
                    ELSE @[n]],
                !.board.edges = [e \in EdgeIds |->
                    IF builder(e) # {}
                    THEN [road |-> CHOOSE p \in builder(e) : TRUE]
                    ELSE @[e]],
                !.players = [p \in PlayerIds |->
                    [@[p] EXCEPT
                        !.settlements = placement(p).settlements,
                        !.roads = placement(p).roads,
                        !.resources = RoadHands[p + 1],
                        !.buildingsRemaining.settlements = @ - 2,
                        !.buildingsRemaining.roads = @ - 2]]]
    IN  startMainGame(UpdateAllVictoryPoints(placed, 0))

\* the initial placements in the order setup takes them
RoadSetupOrder ==
    [j \in 1..(4 * NumPlayers) |->
        << IF j % 2 = 1 THEN "settlement" ELSE "road",
           IF (j + 1) \div 2 <= NumPlayers
           THEN (j + 1) \div 2 - 1
           ELSE 2 * NumPlayers - (j + 1) \div 2 >>]

RoadInit ==
    /\ \E layout \in {l \in TileLayouts : l[1].resource = "desert"} :
          gameState = RoadPosition(layout)
    /\ call = [returned |-> "placeInitialRoad", threw |-> FALSE]
    /\ setupOrder = RoadSetupOrder
    /\ vpDrawn = [p \in PlayerIds |-> 0]
    /\ activeTrades = <<>>
    /\ activeOffers = <<>>
    /\ suspended = <<>>
    /\ portAccess = NoPortAccess
    /\ generation = NotGenerating
    /\ snapshot = NoSnapshot

RoadNext ==
    \/ rollDice(1, 1)
    \/ \E edgeId \in RoadEdgeArgs : buildRoad(edgeId)
    \/ \E nodeId \in RoadNodeArgs : buildSettlement(nodeId)
    \/ endTurn

RoadSpec == RoadInit /\ [][RoadNext]_vars

(***************************************************************************)
(* One turn of building from the same position with a large hand: the      *)
(* current player builds roads, settlements and cities until the pieces    *)
(* or the cards run out.                                                   *)
(***************************************************************************)
BuildHands ==
    << [wood |-> 9, brick |-> 9, sheep |-> 4, wheat |-> 6, ore |-> 3],
       NoResources,
       NoResources >>

BuildEdgeArgs == {0, 7, 8, 9, 11}
BuildNodeArgs == {1, 7, 9, 10}
BuildCityArgs == {3, 9}

BuildInit ==
    /\ \E layout \in {l \in TileLayouts : l[1].resource = "desert"} :
          gameState = [RoadPosition(layout) EXCEPT
                          !.players = [p \in PlayerIds |->
                              [@[p] EXCEPT !.resources = BuildHands[p + 1]]]]
    /\ call = [returned |-> "placeInitialRoad", threw |-> FALSE]
    /\ setupOrder = RoadSetupOrder
    /\ vpDrawn = [p \in PlayerIds |-> 0]
    /\ activeTrades = <<>>
    /\ activeOffers = <<>>
    /\ suspended = <<>>
    /\ portAccess = NoPortAccess
    /\ generation = NotGenerating
    /\ snapshot = NoSnapshot

BuildNext ==
    \/ rollDice(1, 1)
    \/ \E edgeId \in BuildEdgeArgs : buildRoad(edgeId)
    \/ \E nodeId \in BuildNodeArgs : buildSettlement(nodeId)
    \/ \E nodeId \in BuildCityArgs : buildCity(nodeId)

BuildSpec == BuildInit /\ [][BuildNext]_vars

(***************************************************************************)
(* TradingManager (trading-system.js) and DevelopmentCardManager           *)
(* (advanced-ai-engine.js).  Both read the engine's state through          *)
(* getGameState(), whose copy shares its player and board objects with     *)
(* this.gameState: what they write to a player is written to gameState.    *)
(***************************************************************************)
\* proposePlayerTrade is not taken once this many offers have been made
MaxTrades == 1

\* board.ports: the ports of STANDARD_PORTS both of whose nodes are nodes of
\* the modelled fragment, in their order
Ports ==
    << [type |-> "generic", nodeIds |-> <<0, 1>>],
       [type |-> "generic", nodeIds |-> <<3, 4>>],
       [type |-> "wood",    nodeIds |-> <<7, 17>>] >>

\* player.resources[resourceType] || 0
Held(player, resourceType) ==
    IF resourceType \in ResourceSet THEN player.resources[resourceType] ELSE 0

\* the amount a bundle names for a resource (none when it has no such key)
Amount(bundle, resourceType) ==
    IF resourceType \in DOMAIN bundle THEN bundle[resourceType] ELSE 0

\* x-- on a field of developmentCards
Decrement(v) == IF v \in {NaN, undefined} THEN NaN ELSE v - 1

tradeWithBank(playerId, giveResources, receiveResource) ==
    LET gs == gameState
        player == gs.players[playerId]
        giveResourceType == CHOOSE r \in DOMAIN giveResources : TRUE
        giveAmount == giveResources[giveResourceType]
        given == [gs EXCEPT !.players[playerId].resources[giveResourceType] = @ - giveAmount]
        traded == [given EXCEPT !.players[playerId].resources[receiveResource] = @ + 1]
    IN  IF \/ gs.currentPlayer # playerId
           \/ gs.turnPhase # "actions"
           \/ Cardinality(DOMAIN giveResources) # 1
           \/ giveAmount # 4
           \/ receiveResource \notin ResourceSet
           \/ Held(player, giveResourceType) < giveAmount
        THEN Throw
        ELSE /\ Return("tradeWithBank", traded)
             /\ UNCHANGED <<setupOrder, vpDrawn>>

playerHasAccessToPort(gs, playerId, portType) ==
    \E i \in 1..Len(Ports) :
        /\ Ports[i].type = portType
        /\ \E j \in 1..Len(Ports[i].nodeIds) :
              LET node == gs.board.nodes[Ports[i].nodeIds[j]]
              IN  node.owner = playerId /\ node.building # noBuilding

\* getPortTradeRatio(...).valid
getPortTradeRatio(portType, giveResources) ==
    LET giveResourceType == CHOOSE r \in DOMAIN giveResources : TRUE
        giveAmount == giveResources[giveResourceType]
    IN  /\ Cardinality(DOMAIN giveResources) = 1
        /\ IF portType = "generic"
           THEN giveAmount = 3
           ELSE giveResourceType = portType /\ giveAmount = 2

tradeWithPort(playerId, portType, giveResources, receiveResource) ==
    LET gs == gameState
        player == gs.players[playerId]
        given == [gs EXCEPT !.players[playerId].resources =
                     [r \in ResourceSet |-> @[r] - Amount(giveResources, r)]]
        traded == [given EXCEPT !.players[playerId].resources[receiveResource] = @ + 1]
    IN  IF \/ gs.currentPlayer # playerId
           \/ gs.turnPhase # "actions"
           \/ ~playerHasAccessToPort(gs, playerId, portType)
           \/ ~getPortTradeRatio(portType, giveResources)
           \/ receiveResource \notin ResourceSet
           \/ \E r \in DOMAIN giveResources : Held(player, r) < giveResources[r]
        THEN Throw
        ELSE /\ Return("tradeWithPort", traded)
             /\ UNCHANGED <<setupOrder, vpDrawn>>

validateTradeResources(resources) ==
    /\ DOMAIN resources # {}
    /\ \A r \in DOMAIN resources :
          r \in ResourceSet /\ resources[r] \in Int /\ resources[r] > 0

proposePlayerTrade(fromPlayerId, toPlayerId, offerResources, requestResources) ==
    LET gs == gameState
        trade == [fromPlayerId |-> fromPlayerId,
                  toPlayerId |-> toPlayerId,
                  offerResources |-> offerResources,
                  requestResources |-> requestResources,
                  status |-> "pending",
                  age |-> 0,
                  inMap |-> TRUE]
    IN  IF \/ gs.currentPlayer # fromPlayerId
           \/ gs.turnPhase # "actions"
           \/ fromPlayerId \notin PlayerIds
           \/ toPlayerId \notin PlayerIds
           \/ fromPlayerId = toPlayerId
           \/ ~validateTradeResources(offerResources)
           \/ ~validateTradeResources(requestResources)
           \/ \E r \in DOMAIN offerResources :
                 Held(gs.players[fromPlayerId], r) < offerResources[r]
        THEN Throw
        ELSE /\ Len(activeTrades) < MaxTrades
             /\ activeTrades' = Append(activeTrades, trade)
             /\ call' = [returned |-> "proposePlayerTrade", threw |-> FALSE]
             /\ UNCHANGED <<gameState, setupOrder, vpDrawn, activeOffers, suspended, portAccess, generation, snapshot>>

\* a transfer of the offered bundle only, nothing coming back
TradeExecutedOneWay(gs, trade) ==
    [gs EXCEPT
        !.players[trade.fromPlayerId].resources =
            [r \in ResourceSet |-> @[r] - Amount(trade.offerResources, r)],
        !.players[trade.toPlayerId].resources =
            [r \in ResourceSet |-> @[r] + Amount(trade.offerResources, r)]]

\* acceptPlayerTrade's two forEach loops over the bundles of a trade
TradeExecuted(gs, trade) ==
    LET from == trade.fromPlayerId
        to == trade.toPlayerId
        offered == [gs EXCEPT
            !.players[from].resources =
                [r \in ResourceSet |-> @[r] - Amount(trade.offerResources, r)],
            !.players[to].resources =
                [r \in ResourceSet |-> @[r] + Amount(trade.offerResources, r)]]
    IN  [offered EXCEPT
            !.players[to].resources =
                [r \in ResourceSet |-> @[r] - Amount(trade.requestResources, r)],
            !.players[from].resources =
                [r \in ResourceSet |-> @[r] + Amount(trade.requestResources, r)]]

\* acceptPlayerTrade without its second look at the two players' hands
acceptPlayerTradeAsProposed(tradeId, acceptingPlayerId) ==
    LET gs == gameState
        trade == activeTrades[tradeId]
    IN  IF \/ tradeId \notin DOMAIN activeTrades
           \/ ~trade.inMap
           \/ trade.toPlayerId # acceptingPlayerId
           \/ trade.status # "pending"
        THEN Throw
        ELSE /\ gameState' = TradeExecuted(gs, trade)
             /\ activeTrades' = [activeTrades EXCEPT ![tradeId].status = "accepted"]
             /\ call' = [returned |-> "acceptPlayerTrade", threw |-> FALSE]
             /\ UNCHANGED <<setupOrder, vpDrawn, activeOffers, suspended, portAccess, generation, snapshot>>

acceptPlayerTrade(tradeId, acceptingPlayerId) ==
    LET gs == gameState
        trade == activeTrades[tradeId]
        fromPlayer == gs.players[trade.fromPlayerId]
        toPlayer == gs.players[trade.toPlayerId]
    IN  IF \/ tradeId \notin DOMAIN activeTrades
           \/ ~trade.inMap
           \/ trade.toPlayerId # acceptingPlayerId
           \/ trade.status # "pending"
           \/ \E r \in DOMAIN trade.offerResources :
                 Held(fromPlayer, r) < trade.offerResources[r]
           \/ \E r \in DOMAIN trade.requestResources :
                 Held(toPlayer, r) < trade.requestResources[r]
        THEN Throw
        ELSE /\ gameState' = TradeExecuted(gs, trade)
             /\ activeTrades' = [activeTrades EXCEPT ![tradeId].status = "accepted"]
             /\ call' = [returned |-> "acceptPlayerTrade", threw |-> FALSE]
             /\ UNCHANGED <<setupOrder, vpDrawn, activeOffers, suspended, portAccess, generation, snapshot>>

\* rejectPlayerTrade: only the target, only while pending; the Map entry is
\* deleted by a timer later
rejectPlayerTrade(tradeId, rejectingPlayerId) ==
    LET trade == activeTrades[tradeId]
    IN  IF \/ tradeId \notin DOMAIN activeTrades
           \/ ~trade.inMap
           \/ trade.toPlayerId # rejectingPlayerId
           \/ trade.status # "pending"
        THEN Throw
        ELSE /\ activeTrades' = [activeTrades EXCEPT ![tradeId].status = "rejected"]
             /\ call' = [returned |-> "rejectPlayerTrade", threw |-> FALSE]
             /\ UNCHANGED <<gameState, setupOrder, vpDrawn, activeOffers, suspended, portAccess, generation, snapshot>>

\* cancelPlayerTrade: only the proposer, only while pending; the Map entry is
\* deleted at once
cancelPlayerTrade(tradeId, cancelingPlayerId) ==
    LET trade == activeTrades[tradeId]
    IN  IF \/ tradeId \notin DOMAIN activeTrades
           \/ ~trade.inMap
           \/ trade.fromPlayerId # cancelingPlayerId
           \/ trade.status # "pending"
        THEN Throw
        ELSE /\ activeTrades' = [activeTrades EXCEPT ![tradeId].status = "cancelled",
                                                     ![tradeId].inMap = FALSE]
             /\ call' = [returned |-> "cancelPlayerTrade", threw |-> FALSE]
             /\ UNCHANGED <<gameState, setupOrder, vpDrawn, activeOffers, suspended, portAccess, generation, snapshot>>

\* the setTimeout callback of acceptPlayerTrade and of rejectPlayerTrade
deleteTradeTimer(tradeId) ==
    /\ tradeId \in DOMAIN activeTrades
    /\ activeTrades[tradeId].inMap
    /\ activeTrades[tradeId].status \in {"accepted", "rejected"}
    /\ activeTrades' = [activeTrades EXCEPT ![tradeId].inMap = FALSE]
    /\ UNCHANGED <<gameState, call, setupOrder, vpDrawn, activeOffers, suspended, portAccess, generation, snapshot>>

\* Times are in minutes.  maxAgeMs = 300000
TRADE_MAX_AGE == 5

\* expiresAt: Date.now() + 60000
OFFER_EXPIRY == 1

\* cleanupExpiredTrades(): every entry of the Map older than maxAgeMs, whatever
\* its status
cleanupExpiredTrades ==
    /\ activeTrades' =
          [i \in DOMAIN activeTrades |->
              IF activeTrades[i].inMap /\ activeTrades[i].age > TRADE_MAX_AGE
              THEN [activeTrades[i] EXCEPT !.status = "expired", !.inMap = FALSE]
              ELSE activeTrades[i]]
    /\ call' = [returned |-> "cleanupExpiredTrades", threw |-> FALSE]
    /\ UNCHANGED <<gameState, setupOrder, vpDrawn, activeOffers, suspended, portAccess, generation, snapshot>>

(***************************************************************************)
(* The EnhancedTradingSystem.  Its methods take the game state as an       *)
(* argument and report a failure by returning { success: false }.          *)
(***************************************************************************)
Fail == UNCHANGED vars

\* EnhancedTradingSystem.proposePlayerTrade: nothing is validated
EnhancedProposePlayerTrade(fromPlayerId, toPlayerId, giveResources, receiveResources) ==
    LET offer == [fromPlayerId |-> fromPlayerId,
                  toPlayerId |-> toPlayerId,
                  give |-> giveResources,
                  receive |-> receiveResources,
                  status |-> "pending",
                  age |-> 0,
                  inMap |-> TRUE]
    IN  /\ Len(activeOffers) < MaxTrades
        /\ activeOffers' = Append(activeOffers, offer)
        /\ call' = [returned |-> "EnhancedProposePlayerTrade", threw |-> FALSE]
        /\ UNCHANGED <<gameState, setupOrder, vpDrawn, activeTrades, suspended, portAccess, generation, snapshot>>

validatePlayerTradeResources(player, resources) ==
    \A r \in DOMAIN resources :
        r \in ResourceSet /\ player.resources[r] >= resources[r]

\* transferResources: its four forEach loops, in order
transferResources(gs, from, to, giveResources, receiveResources) ==
    LET removedFromGiver == [gs EXCEPT !.players[from].resources =
            [r \in ResourceSet |-> @[r] - Amount(giveResources, r)]]
        addedToReceiver == [removedFromGiver EXCEPT !.players[to].resources =
            [r \in ResourceSet |-> @[r] + Amount(receiveResources, r)]]
        removedFromReceiver == [addedToReceiver EXCEPT !.players[to].resources =
            [r \in ResourceSet |-> @[r] - Amount(receiveResources, r)]]
    IN  [removedFromReceiver EXCEPT !.players[from].resources =
            [r \in ResourceSet |-> @[r] + Amount(giveResources, r)]]

\* EnhancedTradingSystem.acceptPlayerTrade(gameState, tradeId)
EnhancedAcceptPlayerTrade(tradeId) ==
    LET gs == gameState
        offer == activeOffers[tradeId]
    IN  IF \/ tradeId \notin DOMAIN activeOffers
           \/ ~offer.inMap
           \/ offer.status # "pending"
        THEN Fail
        ELSE IF \/ ~validatePlayerTradeResources(gs.players[offer.fromPlayerId], offer.give)
                \/ ~validatePlayerTradeResources(gs.players[offer.toPlayerId], offer.receive)
        THEN Fail
        ELSE /\ gameState' = transferResources(gs, offer.fromPlayerId, offer.toPlayerId,
                                               offer.give, offer.receive)
             /\ activeOffers' = [activeOffers EXCEPT ![tradeId].status = "completed"]
             /\ call' = [returned |-> "EnhancedAcceptPlayerTrade", threw |-> FALSE]
             /\ UNCHANGED <<setupOrder, vpDrawn, activeTrades, suspended, portAccess, generation, snapshot>>

\* cleanupExpiredOffers(): pending offers past their expiresAt
cleanupExpiredOffers ==
    /\ activeOffers' =
          [i \in DOMAIN activeOffers |->
              IF /\ activeOffers[i].inMap
                 /\ activeOffers[i].age > OFFER_EXPIRY
                 /\ activeOffers[i].status = "pending"
              THEN [activeOffers[i] EXCEPT !.status = "expired", !.inMap = FALSE]
              ELSE activeOffers[i]]
    /\ call' = [returned |-> "cleanupExpiredOffers", threw |-> FALSE]
    /\ UNCHANGED <<gameState, setupOrder, vpDrawn, activeTrades, suspended, portAccess, generation, snapshot>>

\* The clock (Date.now()) moves on by TickMinutes: every offer still kept
\* grows older.  A deletion timer set earlier (5000 ms) has fired by then.
MaxAge == 6

TickMinutes == 2

Older(entry) ==
    IF entry.inMap /\ entry.age + TickMinutes <= MaxAge
    THEN [entry EXCEPT !.age = @ + TickMinutes]
    ELSE entry

Tick ==
    /\ \A i \in DOMAIN activeTrades :
          ~(activeTrades[i].inMap /\ activeTrades[i].status \in {"accepted", "rejected"})
    /\ activeTrades' = [i \in DOMAIN activeTrades |-> Older(activeTrades[i])]
    /\ activeOffers' = [i \in DOMAIN activeOffers |-> Older(activeOffers[i])]
    /\ UNCHANGED <<gameState, call, setupOrder, vpDrawn, suspended, portAccess, generation, snapshot>>

\* canPlayDevelopmentCard(...).canPlay.  "count <= 0" is false of NaN and of
\* undefined; developmentCardsPlayedThisTurn is never added to.
canPlayDevelopmentCard(gs, playerId, cardType) ==
    LET player == gs.players[playerId]
        count == player.developmentCards[cardType]
    IN  /\ gs.currentPlayer = playerId
        /\ gs.turnPhase = "actions"
        /\ ~(count \notin {NaN, undefined} /\ count <= 0)
        /\ ~(cardType # "victory_point" /\ player.hasPlayedDevCard)

playMonopoly(playerId, resourceType) ==
    LET gs == gameState
        totalStolen == SumOver([q \in PlayerIds |-> gs.players[q].resources[resourceType]],
                               PlayerIds \ {playerId})
        taken == [gs EXCEPT !.players =
                     [q \in PlayerIds |->
                         IF q # playerId
                         THEN [gs.players[q] EXCEPT !.resources[resourceType] = 0]
                         ELSE [gs.players[q] EXCEPT
                                  !.resources[resourceType] = @ + totalStolen,
                                  !.developmentCards["monopoly"] = Decrement(@),
                                  !.hasPlayedDevCard = TRUE]]]
    IN  IF \/ ~canPlayDevelopmentCard(gs, playerId, "monopoly")
           \/ resourceType \notin ResourceSet
        THEN Throw
        ELSE /\ Return("playMonopoly", taken)
             /\ UNCHANGED <<setupOrder, vpDrawn>>

playYearOfPlenty(playerId, resources) ==
    LET gs == gameState
        granted == [gs EXCEPT !.players[playerId].resources =
                       [r \in ResourceSet |->
                           @[r] + Cardinality({i \in 1..Len(resources) : resources[i] = r})],
                              !.players[playerId].developmentCards["year_of_plenty"] = Decrement(@),
                              !.players[playerId].hasPlayedDevCard = TRUE]
    IN  IF \/ ~canPlayDevelopmentCard(gs, playerId, "year_of_plenty")
           \/ Len(resources) # 2
           \/ \E i \in 1..Len(resources) : resources[i] \notin ResourceSet
        THEN Throw
        ELSE /\ Return("playYearOfPlenty", granted)
             /\ UNCHANGED <<setupOrder, vpDrawn>>

\* checkLargestArmy.  It reads and writes the object getGameState() returns,
\* a copy of this.gameState one level deep: largestArmyPlayer and
\* largestArmySize are set on the copy, which is dropped, and the engine's
\* updateVictoryPoints then runs for every player on this.gameState.
LargestArmyScan(gs) ==
    LET largestArmySize ==
            CHOOSE n \in {gs.players[p].knightsPlayed : p \in PlayerIds} :
                \A q \in PlayerIds : gs.players[q].knightsPlayed <= n
    IN  IF largestArmySize < 3 THEN null
        ELSE CHOOSE p \in PlayerIds :
                /\ gs.players[p].knightsPlayed = largestArmySize
                /\ \A q \in PlayerIds : gs.players[q].knightsPlayed = largestArmySize => p <= q

checkLargestArmy(gs) ==
    IF LargestArmyScan(gs) # gs.largestArmyPlayer
    THEN UpdateAllVictoryPoints(gs, 0)
    ELSE gs

\* playKnight after moveRobber has returned: the card is used
KnightUsed(gs, playerId) ==
    checkLargestArmy([gs EXCEPT !.players[playerId].developmentCards["knight"] = Decrement(@),
                                !.players[playerId].knightsPlayed = @ + 1,
                                !.players[playerId].hasPlayedDevCard = TRUE])

playKnight(playerId, targetTileId, stealFromPlayerId) ==
    LET gs == gameState
        moved == RobberMoved(gs, targetTileId)
    IN  IF ~canPlayDevelopmentCard(gs, playerId, "knight")
        THEN Throw
        ELSE IF \/ gs.turnPhase # "robber_placement"
                \/ targetTileId \notin TileIds
                \/ targetTileId = gs.board.robberPosition
        THEN \* moveRobber throws before it has written anything
             Throw
        ELSE IF stealFromPlayerId = null
        THEN /\ Return("playKnight", KnightUsed([moved EXCEPT !.turnPhase = "actions"], playerId))
             /\ UNCHANGED <<setupOrder, vpDrawn>>
        ELSE IF stealFromPlayerId \notin PlayerIds
        THEN /\ gameState' = moved
             /\ call' = [call EXCEPT !.threw = TRUE]
             /\ UNCHANGED <<setupOrder, vpDrawn, activeTrades, activeOffers, suspended, portAccess, generation, snapshot>>
        ELSE /\ \E stolen \in StealOutcomes(moved, gs.currentPlayer, stealFromPlayerId) :
                    Return("playKnight", KnightUsed([stolen EXCEPT !.turnPhase = "actions"], playerId))
             /\ UNCHANGED <<setupOrder, vpDrawn>>

\* playRoadBuilding.  this.gameEngine.canPlaceRoad is not a method of
\* CatanGameEngine (canPlaceRoad is a function the engine imports): the call
\* for the first edge throws a TypeError, before anything is written.
playRoadBuilding(playerId, edgeIds) ==
    LET gs == gameState
    IN  IF \/ ~canPlayDevelopmentCard(gs, playerId, "road_building")
           \/ Len(edgeIds) > 2
           \/ Len(edgeIds) = 0
        THEN Throw
        ELSE Throw

(***************************************************************************)
(* A main game with trades: the position of RoadPosition with cards in     *)
(* hand and a monopoly card on top of the deck, two turns before the last  *)
(* turn taken.                                                             *)
(***************************************************************************)
TradeHands ==
    << [wood |-> 5, brick |-> 1, sheep |-> 1, wheat |-> 1, ore |-> 1],
       [wood |-> 2, brick |-> 2, sheep |-> 0, wheat |-> 0, ore |-> 0],
       NoResources >>

\* the position of the monopoly card the cut puts on top of the deck
TradeDeckCut == 18

TradeGiveArgs == {[wood |-> 4], [wood |-> 3], [wood |-> 2], [wood |-> 4, brick |-> 1]}
TradeReceiveArgs == {"ore", "gold"}
TradePortArgs == {"generic", "wood"}
TradeOfferArgs == {[wood |-> 1, brick |-> 1], [wood |-> 0]}
TradeRequestArgs == {[wood |-> 2]}
TradeDiscardArgs ==
    {[NoResources EXCEPT !.wood = 4], [NoResources EXCEPT !.wood = 5, !.brick = -1]}
TradeTileArgs == {1}
TradeStealArgs == {1, null}
TradePlentyArgs == {<<"ore", "ore">>, <<"ore">>}
TradeMonopolyArgs == {"wood", "gold"}
TradeDice == {<<3, 3>>, <<3, 4>>}

TradeInit ==
    /\ \E layout \in {l \in TileLayouts : l[1].resource = "desert"} :
          gameState = [RoadPosition(layout) EXCEPT
                          !.players = [p \in PlayerIds |->
                                          [@[p] EXCEPT !.resources = TradeHands[p + 1]]],
                          !.developmentCardDeck = CutDeck(TradeDeckCut),
                          !.turnNumber = MaxTurns - 2]
    /\ call = [returned |-> "placeInitialRoad", threw |-> FALSE]
    /\ setupOrder = RoadSetupOrder
    /\ vpDrawn = [p \in PlayerIds |-> 0]
    /\ activeTrades = <<>>
    /\ activeOffers = <<>>
    /\ suspended = <<>>
    /\ portAccess = NoPortAccess
    /\ generation = NotGenerating
    /\ snapshot = NoSnapshot

TradeNext ==
    \/ \E dice \in TradeDice : rollDice(dice[1], dice[2])
    \/ \E playerId \in PlayerIds, cards \in TradeDiscardArgs : discardCards(playerId, cards)
    \/ \E tileId \in TradeTileArgs, target \in TradeStealArgs : moveRobber(tileId, target)
    \/ \E edgeId \in {0} : buildRoad(edgeId)
    \/ buyDevelopmentCard
    \/ \E playerId \in PlayerIds, give \in TradeGiveArgs, receive \in TradeReceiveArgs :
          tradeWithBank(playerId, give, receive)
    \/ \E playerId \in PlayerIds, portType \in TradePortArgs,
          give \in TradeGiveArgs, receive \in TradeReceiveArgs :
          tradeWithPort(playerId, portType, give, receive)
    \/ \E fromPlayerId \in PlayerIds, toPlayerId \in PlayerArgs,
          offer \in TradeOfferArgs, request \in TradeRequestArgs :
          proposePlayerTrade(fromPlayerId, toPlayerId, offer, request)
    \/ \E tradeId \in 1..(MaxTrades + 1), playerId \in PlayerIds :
          acceptPlayerTrade(tradeId, playerId)
    \/ \E playerId \in PlayerIds, resourceType \in TradeMonopolyArgs :
          playMonopoly(playerId, resourceType)
    \/ \E playerId \in PlayerIds, resources \in TradePlentyArgs :
          playYearOfPlenty(playerId, resources)
    \/ endTurn

TradeSpec == TradeInit /\ [][TradeNext]_vars

(***************************************************************************)
(* A main game in which offers are made, answered and grow old, in both    *)
(* trading systems.                                                        *)
(***************************************************************************)
OfferHands ==
    << [wood |-> 5, brick |-> 1, sheep |-> 0, wheat |-> 0, ore |-> 0],
       [wood |-> 1, brick |-> 2, sheep |-> 0, wheat |-> 0, ore |-> 0],
       NoResources >>

OfferGiveArgs == {[wood |-> 2]}
OfferReceiveArgs == {[brick |-> 1], [brick |-> 3]}
OfferBankGiveArgs == {[wood |-> 4]}
OfferBankReceiveArgs == {"wood", "ore"}
OfferDice == {<<3, 3>>}

OfferInit ==
    /\ \E layout \in {l \in TileLayouts : l[1].resource = "desert"} :
          gameState = [RoadPosition(layout) EXCEPT
                          !.players = [p \in PlayerIds |->
                                          [@[p] EXCEPT !.resources = OfferHands[p + 1]]],
                          !.turnNumber = MaxTurns - 2]
    /\ call = [returned |-> "placeInitialRoad", threw |-> FALSE]
    /\ setupOrder = RoadSetupOrder
    /\ vpDrawn = [p \in PlayerIds |-> 0]
    /\ activeTrades = <<>>
    /\ activeOffers = <<>>
    /\ suspended = <<>>
    /\ portAccess = NoPortAccess
    /\ generation = NotGenerating
    /\ snapshot = NoSnapshot

OfferNext ==
    \/ \E dice \in OfferDice : rollDice(dice[1], dice[2])
    \/ \E playerId \in PlayerIds, give \in OfferBankGiveArgs, receive \in OfferBankReceiveArgs :
          tradeWithBank(playerId, give, receive)
    \/ \E fromPlayerId \in PlayerIds, toPlayerId \in {1},
          offer \in OfferGiveArgs, request \in OfferReceiveArgs :
          proposePlayerTrade(fromPlayerId, toPlayerId, offer, request)
    \/ \E tradeId \in 1..(MaxTrades + 1), playerId \in PlayerIds :
          acceptPlayerTrade(tradeId, playerId)
    \/ \E tradeId \in 1..(MaxTrades + 1), playerId \in PlayerIds :
          rejectPlayerTrade(tradeId, playerId)
    \/ \E tradeId \in 1..(MaxTrades + 1), playerId \in PlayerIds :
          cancelPlayerTrade(tradeId, playerId)
    \/ \E tradeId \in 1..MaxTrades : deleteTradeTimer(tradeId)
    \/ cleanupExpiredTrades
    \/ \E fromPlayerId \in PlayerIds, toPlayerId \in {1},
          give \in OfferGiveArgs, receive \in OfferReceiveArgs :
          EnhancedProposePlayerTrade(fromPlayerId, toPlayerId, give, receive)
    \/ \E tradeId \in 1..(MaxTrades + 1) : EnhancedAcceptPlayerTrade(tradeId)
    \/ cleanupExpiredOffers
    \/ Tick
    \/ endTurn

OfferSpec == OfferInit /\ [][OfferNext]_vars

(***************************************************************************)
(* A main game played to its end: the position of RoadPosition with the    *)
(* cards for the two cities that win the game in the second player's hand. *)
(***************************************************************************)
LateHands ==
    << [wood |-> 5, brick |-> 5, sheep |-> 0, wheat |-> 0, ore |-> 0],
       [wood |-> 0, brick |-> 0, sheep |-> 0, wheat |-> 4, ore |-> 6],
       NoResources >>

LateDice == {<<1, 1>>, <<3, 4>>}
LateDiscardArgs ==
    {[NoResources EXCEPT !.wood = 4, !.brick = 1], [NoResources EXCEPT !.wheat = 2, !.ore = 3]}
LateTileArgs == {1}
LateStealArgs == {null}
LateEdgeArgs == {0, 4}
LateCityArgs == {12, 17}

LateInit ==
    /\ \E layout \in {l \in TileLayouts : l[1].resource = "desert"} :
          gameState = [RoadPosition(layout) EXCEPT
                          !.players = [p \in PlayerIds |->
                                          [@[p] EXCEPT !.resources = LateHands[p + 1]]]]
    /\ call = [returned |-> "placeInitialRoad", threw |-> FALSE]
    /\ setupOrder = RoadSetupOrder
    /\ vpDrawn = [p \in PlayerIds |-> 0]
    /\ activeTrades = <<>>
    /\ activeOffers = <<>>
    /\ suspended = <<>>
    /\ portAccess = NoPortAccess
    /\ generation = NotGenerating
    /\ snapshot = NoSnapshot

LateNext ==
    \/ \E dice \in LateDice : rollDice(dice[1], dice[2])
    \/ \E playerId \in PlayerIds, cards \in LateDiscardArgs : discardCards(playerId, cards)
    \/ \E tileId \in LateTileArgs, target \in LateStealArgs : moveRobber(tileId, target)
    \/ \E edgeId \in LateEdgeArgs : buildRoad(edgeId)
    \/ \E nodeId \in LateCityArgs : buildCity(nodeId)
    \/ endTurn

LateSpec == LateInit /\ [][LateNext]_vars

(***************************************************************************)
(* A main game in which both players hold the cards of two cities, played  *)
(* to game_over and beyond.                                                *)
(***************************************************************************)
WinHands ==
    << [wood |-> 5, brick |-> 5, sheep |-> 0, wheat |-> 4, ore |-> 6],
       [wood |-> 0, brick |-> 0, sheep |-> 0, wheat |-> 4, ore |-> 6],
       NoResources >>

WinDice == {<<1, 1>>, <<3, 4>>}
WinDiscardArgs == {[NoResources EXCEPT !.wood = 5, !.brick = 5]}
WinTileArgs == {1}
WinStealArgs == {null}
WinCityArgs == {3, 5, 12, 17}

WinInit ==
    /\ \E layout \in {l \in TileLayouts : l[1].resource = "desert"} :
          gameState = [RoadPosition(layout) EXCEPT
                          !.players = [p \in PlayerIds |->
                                          [@[p] EXCEPT !.resources = WinHands[p + 1]]]]
    /\ call = [returned |-> "placeInitialRoad", threw |-> FALSE]
    /\ setupOrder = RoadSetupOrder
    /\ vpDrawn = [p \in PlayerIds |-> 0]
    /\ activeTrades = <<>>
    /\ activeOffers = <<>>
    /\ suspended = <<>>
    /\ portAccess = NoPortAccess
    /\ generation = NotGenerating
    /\ snapshot = NoSnapshot

WinNext ==
    \/ \E dice \in WinDice : rollDice(dice[1], dice[2])
    \/ \E playerId \in PlayerIds, cards \in WinDiscardArgs : discardCards(playerId, cards)
    \/ \E tileId \in WinTileArgs, target \in WinStealArgs : moveRobber(tileId, target)
    \/ \E nodeId \in WinCityArgs : buildCity(nodeId)
    \/ endTurn

WinSpec == WinInit /\ [][WinNext]_vars

(***************************************************************************)
(* Commands issued by event listeners.  emit calls the listeners at once,  *)
(* inside the command that emits, and the engine has no flag that says a   *)
(* command is running: a listener's command is an ordinary command, taken  *)
(* while the emitting command waits in suspended.  When the listeners have *)
(* returned the command runs the statements after its emit.                *)
(***************************************************************************)
\* commands are nested in listeners at most this deep
MaxDepth == 1

\* a command has made its writes before emit and calls the listeners
Emit(command, gs) ==
    /\ Len(suspended) < MaxDepth
    /\ gameState' = gs
    /\ suspended' = Append(suspended, command)
    /\ UNCHANGED <<call, setupOrder, vpDrawn, activeTrades, activeOffers, portAccess,
                   generation, snapshot>>

\* endTurn up to emit('turnEnded')
endTurnEmit ==
    IF ~EndTurnLegal(gameState)
    THEN Throw
    ELSE /\ gameState.turnNumber < MaxTurns
         /\ Emit("endTurn", advanceTurn(gameState))

\* rollDice up to its first emit: 'discardCardsRequired' or
\* 'robberMustBeMoved' in handleRobberRoll, 'diceRolled' otherwise
rollDiceEmit(dice1, dice2) ==
    IF gameState.phase # "main_game" \/ gameState.turnPhase # "dice_roll"
    THEN Throw
    ELSE Emit("rollDice", rollResult(gameState, dice1 + dice2))

\* the statements of a command after its emit: endTurn checks for victory,
\* rollDice only emits 'diceRolled' and returns
AfterEmit(command, gs) ==
    IF command = "endTurn" THEN checkVictoryCondition(gs) ELSE gs

\* the listeners have returned: the innermost waiting command runs to its end
emitReturns ==
    /\ suspended # <<>>
    /\ gameState' = AfterEmit(suspended[Len(suspended)], gameState)
    /\ call' = [returned |-> suspended[Len(suspended)], threw |-> FALSE]
    /\ suspended' = SubSeq(suspended, 1, Len(suspended) - 1)
    /\ UNCHANGED <<setupOrder, vpDrawn, activeTrades, activeOffers, portAccess, generation, snapshot>>

\* a listener lets an exception escape: forEach and the waiting command are
\* left at once, the statements after the emit are not run
listenerThrows ==
    /\ suspended # <<>>
    /\ call' = [returned |-> suspended[Len(suspended)], threw |-> TRUE]
    /\ suspended' = SubSeq(suspended, 1, Len(suspended) - 1)
    /\ UNCHANGED <<gameState, setupOrder, vpDrawn, activeTrades, activeOffers, portAccess,
                   generation, snapshot>>

ListenerNext ==
    \/ WinNext
    \/ endTurnEmit
    \/ \E dice \in WinDice : rollDiceEmit(dice[1], dice[2])
    \/ emitReturns
    \/ listenerThrows

ListenerSpec == WinInit /\ [][ListenerNext]_vars

(***************************************************************************)
(* getGameState returns { ...this.gameState }: a new object whose          *)
(* properties are those of gameState.  A property that holds a number, a   *)
(* string or null is copied; a property that holds an object (board,       *)
(* players, developmentCardDeck, settings) holds the same object in the    *)
(* copy, and none of the four is assigned anew once the engine is built.   *)
(***************************************************************************)
SharedFields == {"board", "players", "developmentCardDeck", "settings"}

\* { ...gs }: the values the new object has of its own
shallowCopy(gs) ==
    [f \in (DOMAIN gs \ SharedFields) \cup {"taken"} |->
        IF f = "taken" THEN TRUE ELSE gs[f]]

\* what the holder of the object reads from it
SnapshotView ==
    [f \in DOMAIN gameState |->
        IF f \in SharedFields THEN gameState[f] ELSE snapshot[f]]

getGameState ==
    /\ snapshot' = shallowCopy(gameState)
    /\ UNCHANGED <<gameState, call, setupOrder, vpDrawn, activeTrades, activeOffers,
                   suspended, portAccess, generation>>

\* the holder assigns to a property of the object, as checkLargestArmy does:
\* gameState.largestArmyPlayer = largestArmyPlayer
writeSnapshotProperty(playerId) ==
    /\ snapshot.taken
    /\ snapshot' = [snapshot EXCEPT !.largestArmyPlayer = playerId]
    /\ UNCHANGED <<gameState, call, setupOrder, vpDrawn, activeTrades, activeOffers,
                   suspended, portAccess, generation>>

\* the holder assigns to a property of an object reached from the object,
\* as the managers do: gameState.players[playerId].hasPlayedDevCard = true
writeSnapshotPlayer(playerId) ==
    /\ snapshot.taken
    /\ gameState' = [gameState EXCEPT !.players[playerId].hasPlayedDevCard = TRUE]
    /\ UNCHANGED <<call, setupOrder, vpDrawn, activeTrades, activeOffers,
                   suspended, portAccess, generation, snapshot>>

SnapshotNext ==
    \/ WinNext
    \/ getGameState
    \/ \E playerId \in PlayerIds : writeSnapshotProperty(playerId)
    \/ \E playerId \in PlayerIds : writeSnapshotPlayer(playerId)

SnapshotSpec == WinInit /\ [][SnapshotNext]_vars

(***************************************************************************)
(* A main game with development cards: the position of RoadPosition with   *)
(* the cards to buy them in hand, and a knight, a road building or a        *)
(* victory point card on top of the deck.                                  *)
(***************************************************************************)
CardHands ==
    << [wood |-> 0, brick |-> 0, sheep |-> 2, wheat |-> 2, ore |-> 2],
       [wood |-> 2, brick |-> 0, sheep |-> 1, wheat |-> 1, ore |-> 1],
       NoResources >>

CardDeckCuts == {0, 14, 16}
CardDice == {<<1, 1>>, <<3, 4>>}
CardTileArgs == {0, 1}
CardStealArgs == {null, 1}
CardEdgeArgs == {<<>>, <<0>>, <<0, 1>>}
CardPlentyArgs == {<<"ore", "wheat">>, <<"ore">>}
CardMonopolyArgs == {"wood"}

CardInit ==
    /\ \E layout \in {l \in TileLayouts : l[1].resource = "desert"}, cut \in CardDeckCuts :
          gameState = [RoadPosition(layout) EXCEPT
                          !.players = [p \in PlayerIds |->
                                          [@[p] EXCEPT !.resources = CardHands[p + 1]]],
                          !.developmentCardDeck = CutDeck(cut)]
    /\ call = [returned |-> "placeInitialRoad", threw |-> FALSE]
    /\ setupOrder = RoadSetupOrder
    /\ vpDrawn = [p \in PlayerIds |-> 0]
    /\ activeTrades = <<>>
    /\ activeOffers = <<>>
    /\ suspended = <<>>
    /\ portAccess = NoPortAccess
    /\ generation = NotGenerating
    /\ snapshot = NoSnapshot

CardNext ==
    \/ \E dice \in CardDice : rollDice(dice[1], dice[2])
    \/ \E tileId \in CardTileArgs, target \in CardStealArgs : moveRobber(tileId, target)
    \/ buyDevelopmentCard
    \/ \E playerId \in PlayerIds, tileId \in CardTileArgs, target \in CardStealArgs :
          playKnight(playerId, tileId, target)
    \/ \E playerId \in PlayerIds, edgeIds \in CardEdgeArgs : playRoadBuilding(playerId, edgeIds)
    \/ \E playerId \in PlayerIds, resourceType \in CardMonopolyArgs :
          playMonopoly(playerId, resourceType)
    \/ \E playerId \in PlayerIds, resources \in CardPlentyArgs :
          playYearOfPlenty(playerId, resources)
    \/ endTurn

CardSpec == CardInit /\ [][CardNext]_vars

(***************************************************************************)
(* checkLargestArmy as a method called on its own: the position of         *)
(* RoadPosition after the players have played some knights, the cards      *)
(* gone from the deck.                                                     *)
(***************************************************************************)
ArmyKnights == 0..4

callCheckLargestArmy ==
    /\ Return("checkLargestArmy", checkLargestArmy(gameState))
    /\ UNCHANGED <<setupOrder, vpDrawn>>

ArmyInit ==
    /\ \E layout \in {l \in TileLayouts : l[1].resource = "desert"},
          knights \in [PlayerIds -> ArmyKnights] :
          gameState = [RoadPosition(layout) EXCEPT
                          !.players = [p \in PlayerIds |->
                                          [@[p] EXCEPT !.knightsPlayed = knights[p]]],
                          !.developmentCardDeck =
                              SubSeq(@, SumOver(knights, PlayerIds) + 1, Len(@))]
    /\ call = [returned |-> "placeInitialRoad", threw |-> FALSE]
    /\ setupOrder = RoadSetupOrder
    /\ vpDrawn = [p \in PlayerIds |-> 0]
    /\ activeTrades = <<>>
    /\ activeOffers = <<>>
    /\ suspended = <<>>
    /\ portAccess = NoPortAccess
    /\ generation = NotGenerating
    /\ snapshot = NoSnapshot

ArmyNext ==
    \/ \E dice \in CardDice : rollDice(dice[1], dice[2])
    \/ \E tileId \in CardTileArgs, target \in CardStealArgs : moveRobber(tileId, target)
    \/ callCheckLargestArmy
    \/ endTurn

ArmySpec == ArmyInit /\ [][ArmyNext]_vars

(***************************************************************************)
(* generateNodesAndEdges on the standard layout, one corner at a time.     *)
(* generation.step counts the corners visited: the first loop takes steps  *)
(* 1 .. 6 * 19, the second loop the next 6 * 19.  A node's id is its       *)
(* position in nodeKeys less one, an edge's id its position in edges less  *)
(* one.                                                                    *)
(***************************************************************************)
STANDARD_HEX_LAYOUT ==
    << [q |-> 0, r |-> -2], [q |-> 1, r |-> -2], [q |-> 2, r |-> -2],
       [q |-> -1, r |-> -1], [q |-> 0, r |-> -1], [q |-> 1, r |-> -1], [q |-> 2, r |-> -1],
       [q |-> -2, r |-> 0], [q |-> -1, r |-> 0], [q |-> 0, r |-> 0], [q |-> 1, r |-> 0],
       [q |-> 2, r |-> 0],
       [q |-> -2, r |-> 1], [q |-> -1, r |-> 1], [q |-> 0, r |-> 1], [q |-> 1, r |-> 1],
       [q |-> -2, r |-> 2], [q |-> -1, r |-> 2], [q |-> 0, r |-> 2] >>

StandardCorners == 6 * Len(STANDARD_HEX_LAYOUT)

\* the Map key of corner i of a tile of the standard layout
StandardCornerKey(tileId, i) == HexCornerKey(STANDARD_HEX_LAYOUT[tileId + 1], i)

\* a key that tells the two directions of an edge apart
edgeKeyAsGiven(nodeA, nodeB) == <<nodeA, nodeB>>

\* nodeA < nodeB ? `${nodeA}-${nodeB}` : `${nodeB}-${nodeA}`
edgeKey(nodeA, nodeB) == IF nodeA < nodeB THEN <<nodeA, nodeB>> ELSE <<nodeB, nodeA>>

\* first loop, one corner: a new node, or one more adjacent tile of a node
visitCorner ==
    LET tileId == generation.step \div 6
        key == StandardCornerKey(tileId, generation.step % 6)
        id == IndexOf(generation.nodeKeys, key)
    IN  /\ generation.step # null
        /\ generation.step < StandardCorners
        /\ generation' =
              IF id = 0
              THEN [generation EXCEPT !.step = @ + 1,
                                      !.nodeKeys = Append(@, key),
                                      !.adjacentTiles = Append(@, <<tileId>>),
                                      !.neighborNodes = Append(@, <<>>)]
              ELSE [generation EXCEPT !.step = @ + 1,
                                      !.adjacentTiles[id] = Append(@, tileId)]
        /\ UNCHANGED <<gameState, call, setupOrder, vpDrawn, activeTrades, activeOffers,
                       suspended, portAccess, snapshot>>

\* second loop, one corner: the edge to the next corner of the tile, if new
joinCorners ==
    LET corner == generation.step - StandardCorners
        tileId == corner \div 6
        i == corner % 6
        nodeA == IndexOf(generation.nodeKeys, StandardCornerKey(tileId, i)) - 1
        nodeB == IndexOf(generation.nodeKeys, StandardCornerKey(tileId, (i + 1) % 6)) - 1
        known == {edgeKey(generation.edges[e][1], generation.edges[e][2]) :
                     e \in DOMAIN generation.edges}
    IN  /\ generation.step # null
        /\ generation.step >= StandardCorners
        /\ generation.step < 2 * StandardCorners
        /\ generation' =
              IF edgeKey(nodeA, nodeB) \notin known
              THEN [generation EXCEPT !.step = @ + 1,
                                      !.edges = Append(@, <<nodeA, nodeB>>),
                                      !.neighborNodes[nodeA + 1] = Append(@, nodeB),
                                      !.neighborNodes[nodeB + 1] = Append(@, nodeA)]
              ELSE [generation EXCEPT !.step = @ + 1]
        /\ UNCHANGED <<gameState, call, setupOrder, vpDrawn, activeTrades, activeOffers,
                       suspended, portAccess, snapshot>>

\* the constructor, about to call generateNodesAndEdges
BoardInit ==
    /\ Init
    /\ gameState.board.tiles[0].resource = "desert"

BoardStart ==
    /\ generation = NotGenerating
    /\ snapshot = NoSnapshot
    /\ generation' = [NotGenerating EXCEPT !.step = 0]
    /\ UNCHANGED <<gameState, call, setupOrder, vpDrawn, activeTrades, activeOffers,
                   suspended, portAccess, snapshot>>

BoardNext == BoardStart \/ visitCorner \/ joinCorners

BoardSpec == BoardInit /\ [][BoardNext]_vars

(***************************************************************************)
(* The EnhancedTradingSystem's port access.  generatePorts marks a node    *)
(* with the port's type, a string; the marks never change afterwards, so   *)
(* they are read from Ports instead of being kept in the node records.     *)
(***************************************************************************)
TRADING_RATIOS == [BANK |-> 4, GENERIC_PORT |-> 3, SPECIALIZED_PORT |-> 2]

\* createNode: port: null
noPort == "null"

\* what reading a property a value does not have gives; it is === to no
\* resource name and not to 'generic'
noProperty == "undefined"

\* nodes[nodeId].port after generatePorts: the type of the last port of
\* board.ports that names the node
NodePort(nodeId) ==
    LET marking == {i \in 1..Len(Ports) : nodeId \in Range(Ports[i].nodeIds)}
    IN  IF marking = {} THEN noPort
        ELSE Ports[CHOOSE i \in marking : \A j \in marking : j <= i].type

\* port.type of an element of accessiblePorts: the elements are the strings
\* generatePorts wrote, and a string has no property type
PortTypeOf(port) == noProperty

\* the node.port of the nodes of a list of buildings that have one
PortsOf(buildings) ==
    SelectSeq([i \in 1..Len(buildings) |-> NodePort(buildings[i])],
              LAMBDA port : port # noPort)

calculatePortAccess(gs, playerId) ==
    PortsOf(gs.players[playerId].settlements \o gs.players[playerId].cities)

initializePortAccess ==
    /\ portAccess' = [playerId \in PlayerIds |-> calculatePortAccess(gameState, playerId)]
    /\ call' = [returned |-> "initializePortAccess", threw |-> FALSE]
    /\ UNCHANGED <<gameState, setupOrder, vpDrawn, activeTrades, activeOffers,
                   suspended, generation, snapshot>>

getBestTradingRatio(playerId, resourceType) ==
    LET playerPorts == portAccess[playerId]
    IN  IF \E i \in 1..Len(playerPorts) : PortTypeOf(playerPorts[i]) = resourceType
        THEN TRADING_RATIOS.SPECIALIZED_PORT
        ELSE IF \E i \in 1..Len(playerPorts) : PortTypeOf(playerPorts[i]) = "generic"
        THEN TRADING_RATIOS.GENERIC_PORT
        ELSE TRADING_RATIOS.BANK

(***************************************************************************)
(* The building turns of RoadSpec with the port access computed at any     *)
(* moment between the commands.                                            *)
(***************************************************************************)
PortNext ==
    \/ initializePortAccess
    \/ RoadNext

PortSpec == RoadInit /\ [][PortNext]_vars

(***************************************************************************)
(* Properties of the engine                                                *)
(***************************************************************************)

\* C1: a command that throws leaves gameState equal to its value before
\* the call, in every phase and for every argument, ids that name nothing
\* included.
C1_FailedCommandLeavesState ==
    [][call'.threw => gameState' = gameState]_vars

\* turnPhase goes from a to b in this step
TurnPhaseStep(a, b) == gameState.turnPhase = a /\ gameState'.turnPhase = b

\* C2: while phase = main_game, turnPhase only changes along dice_roll ->
\* actions (no 7), dice_roll -> robber_placement or discard_cards (a 7),
\* discard_cards -> robber_placement, robber_placement -> actions and
\* actions -> dice_roll, and currentPlayer only changes together with an
\* actions -> dice_roll step.
C2_TurnPhaseCycle ==
    [][gameState.phase = "main_game" =>
          /\ gameState'.turnPhase # gameState.turnPhase =>
                \/ TurnPhaseStep("dice_roll", "actions") /\ gameState'.lastDiceRoll # 7
                \/ TurnPhaseStep("dice_roll", "robber_placement") /\ gameState'.lastDiceRoll = 7
                \/ TurnPhaseStep("dice_roll", "discard_cards") /\ gameState'.lastDiceRoll = 7
                \/ TurnPhaseStep("discard_cards", "robber_placement")
                \/ TurnPhaseStep("robber_placement", "actions")
                \/ TurnPhaseStep("actions", "dice_roll")
          /\ gameState'.currentPlayer # gameState.currentPlayer =>
                TurnPhaseStep("actions", "dice_roll")]_vars

\* C3: phase only moves setup -> main_game -> game_over: never backwards,
\* never from setup to game_over, and never away from game_over.
C3_PhaseOnlyAdvances ==
    [][\/ gameState'.phase = gameState.phase
       \/ gameState.phase = "setup" /\ gameState'.phase = "main_game"
       \/ gameState.phase = "main_game" /\ gameState'.phase = "game_over"]_vars

\* a command has returned after the game was over, and the game is still over
C3_CommandAfterGameOver ==
    gameState.phase = "game_over" /\ call.returned = "discardCards"

\* the player of the k-th initial placement, k = 1 .. 2 * NumPlayers
SnakePlayer(k) == IF k <= NumPlayers THEN k - 1 ELSE 2 * NumPlayers - k

\* C4: the successful initial placements are made, in this order, by the
\* players 0, 1, ..., N-1, N-1, ..., 1, 0, each placing a settlement and
\* then a road before currentPlayer moves.
C4_SetupSnakeOrder ==
    /\ Len(setupOrder) <= 4 * NumPlayers
    /\ \A j \in 1..Len(setupOrder) :
          setupOrder[j] = << IF j % 2 = 1 THEN "settlement" ELSE "road",
                             SnakePlayer((j + 1) \div 2) >>
    /\ (gameState.phase = "setup" /\ Len(setupOrder) < 4 * NumPlayers) =>
          gameState.currentPlayer = SnakePlayer((Len(setupOrder) \div 2) + 1)

\* every player has placed both settlements and both roads
C4_SetupComplete == Len(setupOrder) = 4 * NumPlayers

\* this step is player 0's successful second placeInitialRoad
LastSetupRoad ==
    /\ setupOrder' = Append(setupOrder, <<"road", 0>>)
    /\ Len(gameState'.players[0].roads) = 2

\* C5: phase leaves setup exactly in the step in which player 0 places
\* their second initial road; that step leaves phase = main_game,
\* turnPhase = dice_roll, currentPlayer = 0 and turnNumber = 1, and no
\* initial placement succeeds after it.
C5_MainGameStartsAfterLastSetupRoad ==
    [][/\ (gameState.phase = "setup" /\ gameState'.phase # "setup") <=> LastSetupRoad
       /\ LastSetupRoad =>
             /\ gameState'.phase = "main_game"
             /\ gameState'.turnPhase = "dice_roll"
             /\ gameState'.currentPlayer = 0
             /\ gameState'.turnNumber = 1
       /\ gameState.phase # "setup" => setupOrder' = setupOrder]_vars

\* the state right after the last initial road
C5_MainGameJustStarted ==
    /\ call.returned = "placeInitialRoad"
    /\ gameState.phase = "main_game"
    /\ Len(setupOrder) = 4 * NumPlayers

\* C6: no state has phase = main_game while some player's victoryPoints
\* has reached settings.victoryPointsToWin.
C6_NoMainGameAtThreshold ==
    gameState.phase = "main_game" =>
        \A p \in PlayerIds :
            gameState.players[p].victoryPoints < gameState.settings.victoryPointsToWin

\* C7: each player's victoryPoints is settlements + 2 * cities + the
\* victory-point cards the player has drawn + 2 for the longest road + 2
\* for the largest army.
C7_VictoryPointsTotal ==
    \A p \in PlayerIds :
        gameState.players[p].victoryPoints =
            Len(gameState.players[p].settlements)
              + 2 * Len(gameState.players[p].cities)
              + vpDrawn[p]
              + (IF gameState.longestRoadPlayer = p THEN 2 ELSE 0)
              + (IF gameState.largestArmyPlayer = p THEN 2 ELSE 0)

\* C8: once phase = game_over no command changes any field of gameState.
C8_GameOverIsFinal ==
    [][gameState.phase = "game_over" => gameState' = gameState]_vars

\* the pairs (node with the player's building of this kind, adjacent tile)
\* over the tiles with this token and resource that do not hold the robber
ProducingPairs(gs, p, building, token, r) ==
    {pair \in NodeIds \X TileIds :
        /\ gs.board.nodes[pair[1]].owner = p
        /\ gs.board.nodes[pair[1]].building = building
        /\ pair[2] \in AdjacentTiles(pair[1])
        /\ gs.board.tiles[pair[2]].token = token
        /\ gs.board.tiles[pair[2]].resource = r
        /\ gs.board.robberPosition # pair[2]}

\* C9: a roll with a total other than 7 adds to every player, for every
\* resource, one card per pair (settlement, adjacent tile) and two per pair
\* (city, adjacent tile) over the tiles with that token and resource that do
\* not hold the robber, changes no other count, and sets turnPhase = actions.
C9_RollProduction ==
    [][(call'.returned = "rollDice" /\ ~call'.threw /\ gameState'.lastDiceRoll # 7) =>
          /\ \A p \in PlayerIds, r \in ResourceSet :
                gameState'.players[p].resources[r] =
                    gameState.players[p].resources[r]
                      + Cardinality(ProducingPairs(gameState, p, "settlement",
                                                   gameState'.lastDiceRoll, r))
                      + 2 * Cardinality(ProducingPairs(gameState, p, "city",
                                                       gameState'.lastDiceRoll, r))
          /\ gameState'.turnPhase = "actions"]_vars

\* C10: whenever turnPhase = robber_placement every player's
\* mustDiscardCards is 0.
C10_NoDiscardPendingAtRobberPlacement ==
    gameState.turnPhase = "robber_placement" =>
        \A p \in PlayerIds : gameState.players[p].mustDiscardCards = 0


\* the edges carrying a road of the player
OwnRoads(gs, p) == Range(gs.players[p].roads)

\* the nodes carrying a building of another player
OpponentNodes(gs, p) ==
    {n \in NodeIds : /\ gs.board.nodes[n].building # noBuilding
                     /\ gs.board.nodes[n].owner # p}

RECURSIVE TrailFrom(_, _, _, _)
\* the longest walk from node n over the edges of own that uses none of the
\* edges in used and no edge twice, and stops where it arrives at a node
\* in blocked
TrailFrom(own, blocked, n, used) ==
    IF n \in blocked /\ used # {} THEN 0
    ELSE Max({0} \cup
             {1 + TrailFrom(own, blocked,
                            IF fromNode(e) = n THEN toNode(e) ELSE fromNode(e),
                            used \cup {e}) :
                e \in {x \in own \ used : fromNode(x) = n \/ toNode(x) = n}})

LongestTrail(own, blocked) ==
    Max({0} \cup {TrailFrom(own, blocked, n, {}) : n \in NodeIds})

\* C11: for every player the engine's longest-road length is the length of
\* the longest path over the player's own roads that uses no road twice
\* (a node may be passed again) and does not continue through a node with
\* an opponent's building
C11_LongestRoadIsLongestTrail ==
    \A p \in PlayerIds :
        calculateLongestRoadForPlayer(gameState, p)
            = LongestTrail(OwnRoads(gameState, p), OpponentNodes(gameState, p))


\* C12: the longest-road award passes from its holder h to another player p
\* only when p's longest road is at least 5 and strictly longer than h's
\* road at that moment; a player who only equals h's length does not take it
C12_LongestRoadTransfer ==
    [][LET h == gameState.longestRoadPlayer
           p == gameState'.longestRoadPlayer
       IN  (h # null /\ p # null /\ p # h) =>
               /\ calculateLongestRoadForPlayer(gameState', p) >= 5
               /\ calculateLongestRoadForPlayer(gameState', p)
                      > calculateLongestRoadForPlayer(gameState', h)]_vars


\* the number of edges of own that end at node n
Degree(own, n) == Cardinality({e \in own : fromNode(e) = n \/ toNode(e) = n})

ChainEnds(own) == {n \in NodeIds : Degree(own, n) = 1}
ChainInterior(own) == {n \in NodeIds : Degree(own, n) = 2}

\* own is one straight chain: no fork, an open end, and every edge on one
\* walk
IsChain(own) ==
    /\ own # {}
    /\ \A n \in NodeIds : Degree(own, n) <= 2
    /\ ChainEnds(own) # {}
    /\ LongestTrail(own, {}) = Cardinality(own)

\* the number of chain edges between a chain end and node b, from the
\* farther end
CappedLength(own, b) == Max({TrailFrom(own, {b}, a, {}) : a \in ChainEnds(own)})

\* C13: when a player's roads form one straight chain of k edges, the
\* longest-road length is k if no opponent building stands on the chain,
\* and max(i, k - i) if one opponent building stands on an interior node
\* i edges from an end
C13_ChainLength ==
    \A p \in PlayerIds :
        LET own == OwnRoads(gameState, p)
            onChain == {n \in OpponentNodes(gameState, p) : Degree(own, n) > 0}
        IN  IsChain(own) =>
                /\ onChain = {} =>
                       calculateLongestRoadForPlayer(gameState, p) = Cardinality(own)
                /\ \A b \in ChainInterior(own) :
                       onChain = {b} =>
                           calculateLongestRoadForPlayer(gameState, p) = CappedLength(own, b)

\* a chain of five roads with an opponent's settlement on an interior node
C13_CutChainOfFive ==
    \E p \in PlayerIds :
        LET own == OwnRoads(gameState, p)
            onChain == {n \in OpponentNodes(gameState, p) : Degree(own, n) > 0}
        IN  /\ IsChain(own)
            /\ Cardinality(own) = 5
            /\ \E b \in ChainInterior(own) : onChain = {b}
            /\ call.returned \in {"buildRoad", "buildSettlement"}


\* the nodes that carry a settlement or a city
BuiltNodes(gs) == {n \in NodeIds : gs.board.nodes[n].building # noBuilding}

\* C14: whenever a command changes the buildings on the board, no two nodes
\* joined by an edge both carry a building afterwards (the board starts
\* empty), and a node's building has only changed from none to a settlement
\* or from a settlement to a city of the same owner
C14_DistanceRule ==
    [][gameState'.board.nodes # gameState.board.nodes =>
          /\ \A e \in EdgeIds :
                 \/ gameState'.board.nodes[fromNode(e)].building = noBuilding
                 \/ gameState'.board.nodes[toNode(e)].building = noBuilding
          /\ \A n \in NodeIds :
                 LET before == gameState.board.nodes[n]
                     after == gameState'.board.nodes[n]
                 IN  before # after =>
                         \/ before.building = noBuilding /\ after.building = "settlement"
                         \/ /\ before.building = "settlement"
                            /\ after.building = "city"
                            /\ after.owner = before.owner]_vars

\* a settlement has been built in the main game next to the initial ones
C14_SettlementBuilt ==
    /\ call.returned = "buildSettlement"
    /\ Cardinality(BuiltNodes(gameState)) > 2 * NumPlayers


\* C15: every player has at most 5 settlements and cities together, at most
\* 4 cities and at most 15 roads on the board
C15_PieceLimits ==
    \A p \in PlayerIds :
        /\ Len(gameState.players[p].settlements) + Len(gameState.players[p].cities)
               <= BUILDING_LIMITS.settlements
        /\ Len(gameState.players[p].cities) <= BUILDING_LIMITS.cities
        /\ Len(gameState.players[p].roads) <= BUILDING_LIMITS.roads


\* C16: in every reachable state every player's count of every resource is
\* an integer >= 0, whatever production, discards, steals, builds, card
\* plays, bank and port trades and accepted player trades came before.
C16_ResourceCounts ==
    \A p \in PlayerIds : \A r \in ResourceSet :
        gameState.players[p].resources[r] \in Nat

\* an accepted offer whose two bundles name the same resource
C16_SameResourceTradeAccepted ==
    /\ call.returned = "acceptPlayerTrade"
    /\ \E i \in DOMAIN activeTrades :
          /\ activeTrades[i].status = "accepted"
          /\ DOMAIN activeTrades[i].offerResources
                \cap DOMAIN activeTrades[i].requestResources # {}


\* the costs of the four purchases, as listed
C17_ListedCost ==
    [buildSettlement    |-> [wood |-> 1, brick |-> 1, sheep |-> 1, wheat |-> 1, ore |-> 0],
     buildCity          |-> [wood |-> 0, brick |-> 0, sheep |-> 0, wheat |-> 2, ore |-> 3],
     buildRoad          |-> [wood |-> 1, brick |-> 1, sheep |-> 0, wheat |-> 0, ore |-> 0],
     buyDevelopmentCard |-> [wood |-> 0, brick |-> 0, sheep |-> 1, wheat |-> 1, ore |-> 1]]

\* C17: buildSettlement, buildCity, buildRoad and buyDevelopmentCard
\* succeed only if the current player holds the listed cost; a success
\* takes exactly that cost from the current player and leaves the cards of
\* every other player as they were.
C17_ExactCost ==
    [][ (/\ gameState' # gameState
         /\ ~call'.threw
         /\ call'.returned \in DOMAIN C17_ListedCost)
        => LET p == gameState.currentPlayer
               cost == C17_ListedCost[call'.returned]
           IN  /\ \A r \in ResourceSet :
                     /\ gameState.players[p].resources[r] >= cost[r]
                     /\ gameState'.players[p].resources[r]
                           = gameState.players[p].resources[r] - cost[r]
               /\ \A q \in PlayerIds \ {p} :
                     gameState'.players[q].resources = gameState.players[q].resources ]_vars

\* a development card has just been bought by a player who has built a city
C17_CardBoughtAfterCity ==
    /\ call.returned = "buyDevelopmentCard"
    /\ ~call.threw
    /\ Len(gameState.developmentCardDeck) < Len(DEV_CARD_DECK)
    /\ \E p \in PlayerIds : Len(gameState.players[p].cities) > 0


\* the edges that end at node n
EdgesAt(n) == {e \in EdgeIds : fromNode(e) = n \/ toNode(e) = n}

\* C18: in the main game a successful buildSettlement builds on an unbuilt
\* node with no built neighbour at the end of one of the current player's
\* roads; a successful buildRoad takes an unowned edge that shares an end
\* with the player's own settlement, city or road; a successful buildCity
\* replaces one of the player's own settlements; each succeeds only in turn
\* phase actions of phase main_game and only while the player has a piece of
\* that kind left.
C18_PlacementLegality ==
    [][ (/\ gameState' # gameState
         /\ ~call'.threw
         /\ call'.returned \in {"buildSettlement", "buildRoad", "buildCity"})
        => LET p == gameState.currentPlayer
               player == gameState.players[p]
               nodes == gameState.board.nodes
               edges == gameState.board.edges
               Built(n) == nodes[n].building # noBuilding
               placedNodes == {n \in NodeIds : gameState'.board.nodes[n] # nodes[n]}
               placedEdges == {e \in EdgeIds : gameState'.board.edges[e] # edges[e]}
           IN  /\ gameState.turnPhase = "actions"
               /\ gameState.phase = "main_game"
               /\ call'.returned = "buildSettlement" =>
                     /\ player.buildingsRemaining.settlements > 0
                     /\ Cardinality(placedNodes) = 1
                     /\ \A n \in placedNodes :
                           /\ ~Built(n)
                           /\ \A e \in EdgesAt(n) : ~Built(fromNode(e)) /\ ~Built(toNode(e))
                           /\ \E e \in EdgesAt(n) : edges[e].road = p
               /\ call'.returned = "buildRoad" =>
                     /\ player.buildingsRemaining.roads > 0
                     /\ Cardinality(placedEdges) = 1
                     /\ \A e \in placedEdges :
                           /\ edges[e].road = null
                           /\ \E n \in {fromNode(e), toNode(e)} :
                                 \/ Built(n) /\ nodes[n].owner = p
                                 \/ \E other \in EdgesAt(n) \ {e} : edges[other].road = p
               /\ call'.returned = "buildCity" =>
                     /\ player.buildingsRemaining.cities > 0
                     /\ Cardinality(placedNodes) = 1
                     /\ \A n \in placedNodes :
                           /\ nodes[n].building = "settlement"
                           /\ nodes[n].owner = p
                           /\ n \in Range(player.settlements) ]_vars


\* C19: in every reachable state exactly one tile has hasRobber = true and
\* its id is board.robberPosition (the desert tile until the robber is first
\* moved).
C19_OneRobberTile ==
    LET tiles == gameState.board.tiles
    IN  /\ Cardinality({t \in TileIds : tiles[t].hasRobber}) = 1
        /\ gameState.board.robberPosition \in TileIds
        /\ tiles[gameState.board.robberPosition].hasRobber

\* the cards of resource r that a settlement on node n yields: one for
\* every tile of that resource the node is a corner of
C20_Yield(n, r) ==
    Cardinality({t \in TileIds :
                    /\ \E i \in 0..5 : CornerNode(t, i) = n
                    /\ gameState.board.tiles[t].resource = r})

\* C20: a placeInitialSettlement of setup round 2 gives the placing player
\* one card of the tile's resource for every non-desert tile next to the
\* chosen node and a placement of round 1 changes no resources, so that when
\* main_game starts every player holds exactly the yield of their second
\* settlement.
C20_InitialResources ==
    /\ [][ (/\ gameState' # gameState
            /\ ~call'.threw
            /\ call'.returned = "placeInitialSettlement")
           => LET p == gameState.currentPlayer
                  placed == {n \in NodeIds :
                                gameState'.board.nodes[n] # gameState.board.nodes[n]}
              IN  /\ Cardinality(placed) = 1
                  /\ \A n \in placed : \A r \in ResourceSet :
                        gameState'.players[p].resources[r]
                           = gameState.players[p].resources[r]
                                + (IF gameState.setupRound = 2 THEN C20_Yield(n, r) ELSE 0)
                  /\ \A q \in PlayerIds \ {p} :
                        gameState'.players[q].resources = gameState.players[q].resources ]_vars
    /\ [] ((gameState.phase = "main_game" /\ call.returned = "placeInitialRoad")
             => \A p \in PlayerIds : \A r \in ResourceSet :
                   gameState.players[p].resources[r]
                      = C20_Yield(gameState.players[p].settlements[2], r))

\* main_game has just started and a player holds the cards of a second
\* settlement that touches two or more producing tiles
C20_MainGameStartsWithYield ==
    /\ gameState.phase = "main_game"
    /\ call.returned = "placeInitialRoad"
    /\ \E p \in PlayerIds :
          SumOver(gameState.players[p].resources, ResourceSet) >= 2


\* C21: when it is the player's turn in turn phase actions, the player holds
\* a knight card and has played no development card this turn, playKnight
\* for a tile other than the robber's succeeds: the robber stands on that
\* tile, the player has one knight card less and one knight played more.
C21_KnightPlayable ==
    \A tileId \in TileIds :
        LET p == gameState.currentPlayer
            player == gameState.players[p]
        IN  (/\ gameState.turnPhase = "actions"
             /\ player.developmentCards.knight \in Nat \ {0}
             /\ ~player.hasPlayedDevCard
             /\ tileId # gameState.board.robberPosition)
            => ENABLED (/\ playKnight(p, tileId, null)
                        /\ gameState'.board.robberPosition = tileId
                        /\ gameState'.players[p].developmentCards.knight
                              = player.developmentCards.knight - 1
                        /\ gameState'.players[p].knightsPlayed = player.knightsPlayed + 1)


C23_JustBought(cardType) ==
    /\ call.returned = "buyDevelopmentCard"
    /\ ~call.threw
    /\ Len(gameState.developmentCardDeck) = Len(DEV_CARD_DECK) - 1
    /\ getCurrentPlayer(gameState).developmentCards[cardType] \notin {0, undefined}

\* C23: a card obtained with buyDevelopmentCard cannot be played before the
\* buyer's next turn: when the buyer holds no other card of its type, the
\* play of that type fails while the turn of the purchase lasts.
C23_BoughtCardNotPlayable ==
    LET p == gameState.currentPlayer
    IN  /\ C23_JustBought("knight") =>
              ~ENABLED (/\ \E tileId \in TileIds, target \in PlayerIds \cup {null} :
                              playKnight(p, tileId, target)
                        /\ call'.returned = "playKnight")
        /\ C23_JustBought("road_building") =>
              ~ENABLED (/\ \E edgeIds \in CardEdgeArgs : playRoadBuilding(p, edgeIds)
                        /\ call'.returned = "playRoadBuilding")
        /\ C23_JustBought("monopoly") =>
              ~ENABLED (/\ \E resourceType \in ResourceSet : playMonopoly(p, resourceType)
                        /\ call'.returned = "playMonopoly")
        /\ C23_JustBought("year_of_plenty") =>
              ~ENABLED (/\ \E resources \in CardPlentyArgs : playYearOfPlenty(p, resources)
                        /\ call'.returned = "playYearOfPlenty")


\* the player holds no card of the type: the count is 0, or the player's
\* developmentCards has no entry of that name because none was ever drawn
C24_HoldsNone(p, cardType) ==
    gameState.players[p].developmentCards[cardType] \in {0, undefined}

\* C24: playKnight, playRoadBuilding, playMonopoly and playYearOfPlenty fail
\* and leave the state as it was whenever the player holds no card of that
\* type.
C24_CardNotHeldFails ==
    \A p \in PlayerIds :
        /\ C24_HoldsNone(p, "knight") =>
              ~ENABLED (/\ \E tileId \in TileIds, target \in PlayerIds \cup {null} :
                              playKnight(p, tileId, target)
                        /\ gameState' # gameState)
        /\ C24_HoldsNone(p, "road_building") =>
              ~ENABLED (/\ \E edgeIds \in CardEdgeArgs : playRoadBuilding(p, edgeIds)
                        /\ gameState' # gameState)
        /\ C24_HoldsNone(p, "monopoly") =>
              ~ENABLED (/\ \E resourceType \in ResourceSet : playMonopoly(p, resourceType)
                        /\ gameState' # gameState)
        /\ C24_HoldsNone(p, "year_of_plenty") =>
              ~ENABLED (/\ \E resources \in CardPlentyArgs : playYearOfPlenty(p, resources)
                        /\ gameState' # gameState)


\* the current player may play a road building card: one has been drawn,
\* it is the actions phase and no development card was played this turn
C25_Entitled ==
    LET player == getCurrentPlayer(gameState)
    IN  /\ gameState.phase = "main_game"
        /\ gameState.turnPhase = "actions"
        /\ player.developmentCards["road_building"] \notin {0, undefined}
        /\ ~player.hasPlayedDevCard
        /\ player.buildingsRemaining.roads >= 2

\* two free edges, the second joined to the player's network only by the first
C25_Chained(p, first, second) ==
    LET withFirst == [gameState EXCEPT !.board.edges[first].road = p]
    IN  /\ first # second
        /\ gameState.board.edges[first].road = null
        /\ gameState.board.edges[second].road = null
        /\ isConnectedToPlayerNetwork(gameState, p, first)
        /\ ~isConnectedToPlayerNetwork(gameState, p, second)
        /\ isConnectedToPlayerNetwork(withFirst, p, second)

\* C25: playRoadBuilding by a player entitled to play the card, for two free
\* edges of which the second is joined to the player's network only by the
\* first, succeeds: both roads are the player's, no card of the hand is
\* spent, and the player is left with two road pieces less.
C25_RoadBuildingChained ==
    \A first \in EdgeIds, second \in EdgeIds :
        LET p == gameState.currentPlayer
            player == gameState.players[p]
        IN  (C25_Entitled /\ C25_Chained(p, first, second))
            => ENABLED (/\ playRoadBuilding(p, <<first, second>>)
                        /\ gameState'.board.edges[first].road = p
                        /\ gameState'.board.edges[second].road = p
                        /\ gameState'.players[p].resources = player.resources
                        /\ gameState'.players[p].buildingsRemaining.roads
                              = player.buildingsRemaining.roads - 2)


\* the name createPlayer gives the count of the cards of a type
C26_CountName ==
    [knight |-> "knight", road_building |-> "roadBuilding", monopoly |-> "monopoly",
     year_of_plenty |-> "yearOfPlenty", victory_point |-> "victoryPoint"]

\* the development cards a player holds, by createPlayer's five counts
C26_Held(player) ==
    player.developmentCards.knight + player.developmentCards.roadBuilding
      + player.developmentCards.monopoly + player.developmentCards.yearOfPlenty
      + player.developmentCards.victoryPoint

\* C26: each successful buyDevelopmentCard removes exactly one card, the top
\* one, from the deck and raises the buyer's count of that card's type by
\* exactly 1, so that in every reachable state the cards of the deck, the
\* cards held and the knights played make up the 25 cards of the deck.
C26_DeckAccounting ==
    /\ [][ (/\ call'.returned = "buyDevelopmentCard"
            /\ ~call'.threw
            /\ gameState' # gameState)
           => LET p == gameState.currentPlayer
                  deck == gameState.developmentCardDeck
                  count == C26_CountName[deck[Len(deck)]]
              IN  /\ gameState'.developmentCardDeck = SubSeq(deck, 1, Len(deck) - 1)
                  /\ gameState'.players[p].developmentCards[count]
                        = gameState.players[p].developmentCards[count] + 1 ]_vars
    /\ [] (Len(gameState.developmentCardDeck)
              + SumOver([p \in PlayerIds |-> C26_Held(gameState.players[p])], PlayerIds)
              + SumOver([p \in PlayerIds |-> gameState.players[p].knightsPlayed], PlayerIds)
           = Len(DEV_CARD_DECK))

(***************************************************************************)
(* C27.  TradingManager.acceptPlayerTrade looks again at both hands when   *)
(* the offer is accepted: an offer becomes accepted only in a step that    *)
(* starts with the proposer holding the offered bundle and the target      *)
(* holding the requested one (otherwise the call throws, and nothing, the  *)
(* offer's pending status included, changes); that step moves the offered  *)
(* bundle from proposer to target and the requested bundle from target to  *)
(* proposer, changes nothing else of the game, and keeps every resource's  *)
(* total over all players; and a step in which an offer becomes rejected,  *)
(* cancelled or expired leaves the game state as it was.                   *)
(***************************************************************************)
C27_Becomes(i, status) ==
    /\ i \in DOMAIN activeTrades
    /\ activeTrades[i].status = "pending"
    /\ activeTrades'[i].status = status

C27_TotalOf(gs, r) == SumOver([p \in PlayerIds |-> gs.players[p].resources[r]], PlayerIds)

C27_AcceptStep(i) ==
    LET trade == activeTrades[i]
        from == trade.fromPlayerId
        to == trade.toPlayerId
    IN  /\ \A r \in DOMAIN trade.offerResources :
              Held(gameState.players[from], r) >= trade.offerResources[r]
        /\ \A r \in DOMAIN trade.requestResources :
              Held(gameState.players[to], r) >= trade.requestResources[r]
        /\ \A r \in ResourceSet :
              /\ gameState'.players[from].resources[r]
                    = gameState.players[from].resources[r]
                         - Amount(trade.offerResources, r) + Amount(trade.requestResources, r)
              /\ gameState'.players[to].resources[r]
                    = gameState.players[to].resources[r]
                         + Amount(trade.offerResources, r) - Amount(trade.requestResources, r)
              /\ C27_TotalOf(gameState', r) = C27_TotalOf(gameState, r)
        /\ gameState' = [gameState EXCEPT
                            !.players[from].resources = gameState'.players[from].resources,
                            !.players[to].resources = gameState'.players[to].resources]

C27_AcceptRechecksAndTransfers ==
    [][\A i \in 1..MaxTrades :
          /\ C27_Becomes(i, "accepted") => C27_AcceptStep(i)
          /\ (\E status \in {"rejected", "cancelled", "expired"} : C27_Becomes(i, status))
                => gameState' = gameState]_vars

\* an offer accepted after the brick the target asked to give has come
\* over to the proposer
C27_TradeAccepted ==
    /\ call.returned = "acceptPlayerTrade"
    /\ \E i \in DOMAIN activeTrades :
          /\ activeTrades[i].status = "accepted"
          /\ activeTrades[i].fromPlayerId = 0
          /\ gameState.players[0].resources.brick = OfferHands[1].brick + 1
          /\ gameState.players[1].resources.brick = OfferHands[2].brick - 1

(***************************************************************************)
(* C28.  A successful EnhancedTradingSystem.acceptPlayerTrade (the step    *)
(* in which an offer between two different players goes from pending to    *)
(* completed) leaves the proposer with what they had minus the give bundle *)
(* plus the receive bundle, and the target with what they had plus the     *)
(* give bundle minus the receive bundle.                                   *)
(***************************************************************************)
C28_Completed(i) ==
    /\ i \in DOMAIN activeOffers
    /\ activeOffers[i].status = "pending"
    /\ activeOffers'[i].status = "completed"
    /\ activeOffers[i].fromPlayerId # activeOffers[i].toPlayerId

C28_OfferTransfers ==
    [][\A i \in 1..MaxTrades :
          C28_Completed(i) =>
             LET offer == activeOffers[i]
             IN  \A r \in ResourceSet :
                    /\ gameState'.players[offer.fromPlayerId].resources[r]
                          = gameState.players[offer.fromPlayerId].resources[r]
                               - Amount(offer.give, r) + Amount(offer.receive, r)
                    /\ gameState'.players[offer.toPlayerId].resources[r]
                          = gameState.players[offer.toPlayerId].resources[r]
                               + Amount(offer.give, r) - Amount(offer.receive, r)]_vars

(***************************************************************************)
(* C29.  No offer is accepted after its expiry: an offer of the            *)
(* EnhancedTradingSystem whose expiresAt has passed never goes from        *)
(* pending to completed, and an offer of the TradingManager older than     *)
(* the maximum age never goes from pending to accepted, whether or not     *)
(* the cleanup has run in between.                                         *)
(***************************************************************************)
C29_OfferExpired(i) ==
    i \in DOMAIN activeOffers /\ activeOffers[i].age > OFFER_EXPIRY

C29_TradeExpired(i) ==
    i \in DOMAIN activeTrades /\ activeTrades[i].age > TRADE_MAX_AGE

C29_NoAcceptanceAfterExpiry ==
    [][\A i \in 1..MaxTrades :
          /\ C29_OfferExpired(i) =>
                ~(activeOffers[i].status = "pending" /\ activeOffers'[i].status = "completed")
          /\ C29_TradeExpired(i) =>
                ~(activeTrades[i].status = "pending" /\ activeTrades'[i].status = "accepted")]_vars

(***************************************************************************)
(* C30.  A successful tradeWithBank is made by the current player in       *)
(* turnPhase actions, takes 4 of one resource and gives 1 of a different   *)
(* resource, and changes nothing else: in particular a trade that asks     *)
(* for the resource it gives does not succeed.                             *)
(***************************************************************************)
C30_BankTradeStep ==
    /\ call'.returned = "tradeWithBank"
    /\ ~call'.threw
    /\ gameState' # gameState

C30_BankTrade ==
    [][C30_BankTradeStep =>
          /\ gameState.turnPhase = "actions"
          /\ \E give \in ResourceSet, receive \in ResourceSet :
                /\ give # receive
                /\ gameState.players[gameState.currentPlayer].resources[give] >= 4
                /\ gameState' = [gameState EXCEPT
                      !.players[gameState.currentPlayer].resources[give] = @ - 4,
                      !.players[gameState.currentPlayer].resources[receive] = @ + 1]]_vars

(***************************************************************************)
(* C32.  In every state each player's publicVictoryPoints is the player's  *)
(* victoryPoints less the victory-point cards the player holds (vpDrawn:   *)
(* no command takes such a card away again), so publicVictoryPoints never  *)
(* exceeds victoryPoints.                                                  *)
(***************************************************************************)
C32_PublicVictoryPoints ==
    \A p \in PlayerIds :
        /\ gameState.players[p].publicVictoryPoints
              = gameState.players[p].victoryPoints - vpDrawn[p]
        /\ gameState.players[p].publicVictoryPoints <= gameState.players[p].victoryPoints

(***************************************************************************)
(* C36.  The board and the players' lists agree in every state: node n     *)
(* carries a settlement (a city) of owner p exactly when n is in           *)
(* players[p].settlements (cities), edge e carries p's road exactly when   *)
(* e is in players[p].roads, and no id is listed twice, in one list or in  *)
(* the lists of two players.                                               *)
(***************************************************************************)
C36_NoRepeats(seq) == \A i, j \in DOMAIN seq : seq[i] = seq[j] => i = j

C36_BoardAgreesWithPlayers ==
    \A p \in PlayerIds :
        LET player == gameState.players[p]
        IN  /\ \A n \in NodeIds :
                  /\ (n \in Range(player.settlements))
                        <=> (/\ gameState.board.nodes[n].building = "settlement"
                             /\ gameState.board.nodes[n].owner = p)
                  /\ (n \in Range(player.cities))
                        <=> (/\ gameState.board.nodes[n].building = "city"
                             /\ gameState.board.nodes[n].owner = p)
            /\ \A e \in EdgeIds :
                  (e \in Range(player.roads)) <=> gameState.board.edges[e].road = p
            /\ Range(player.settlements) \subseteq NodeIds
            /\ Range(player.cities) \subseteq NodeIds
            /\ Range(player.roads) \subseteq EdgeIds
            /\ C36_NoRepeats(player.settlements \o player.cities)
            /\ C36_NoRepeats(player.roads)

\* a road has just been built in the main game, next to the pieces of setup
C36_RoadBuilt ==
    /\ call.returned = "buildRoad"
    /\ \E p \in PlayerIds :
          /\ Len(gameState.players[p].roads) > 2
          /\ Len(gameState.players[p].settlements) = 2

(***************************************************************************)
(* C37.  For every player in every state the pieces left and the pieces    *)
(* on the board add up to the supply: buildingsRemaining.settlements +     *)
(* |settlements| = 5, buildingsRemaining.cities + |cities| = 4 and         *)
(* buildingsRemaining.roads + |roads| = 15, and no count left is negative. *)
(***************************************************************************)
C37_PiecesAddUp ==
    \A p \in PlayerIds :
        LET player == gameState.players[p]
        IN  /\ player.buildingsRemaining.settlements + Len(player.settlements)
                  = BUILDING_LIMITS.settlements
            /\ player.buildingsRemaining.cities + Len(player.cities) = BUILDING_LIMITS.cities
            /\ player.buildingsRemaining.roads + Len(player.roads) = BUILDING_LIMITS.roads
            /\ player.buildingsRemaining.settlements >= 0
            /\ player.buildingsRemaining.cities >= 0
            /\ player.buildingsRemaining.roads >= 0

\* a city has just been built: the settlement piece is back in the supply
C37_CityBuilt ==
    /\ call.returned = "buildCity"
    /\ \E p \in PlayerIds :
          /\ Len(gameState.players[p].cities) = 1
          /\ gameState.players[p].buildingsRemaining.settlements
                = BUILDING_LIMITS.settlements - 1

(***************************************************************************)
(* C38.  Whenever phase = game_over, gameWinner is a player whose          *)
(* victoryPoints have reached the threshold and no other player's have;    *)
(* and the step that ends the game records as gameWinner the player whose  *)
(* turn was ending, not the player the turn passed to.                     *)
(***************************************************************************)
C38_Threshold == gameState.settings.victoryPointsToWin

C38_Winner ==
    /\ [][(gameState.phase # "game_over" /\ gameState'.phase = "game_over")
             => gameState'.gameWinner = gameState.currentPlayer]_vars
    /\ [](gameState.phase = "game_over" =>
             /\ gameState.gameWinner \in PlayerIds
             /\ gameState.players[gameState.gameWinner].victoryPoints >= C38_Threshold
             /\ \A q \in PlayerIds \ {gameState.gameWinner} :
                   gameState.players[q].victoryPoints < C38_Threshold)

(***************************************************************************)
(* C39.  A TradingManager offer changes status at most once: whatever      *)
(* order acceptPlayerTrade, rejectPlayerTrade, cancelPlayerTrade,          *)
(* cleanupExpiredTrades and the deletion timers run in, a step changes an  *)
(* offer's status only from pending, and only to accepted, rejected,       *)
(* cancelled or expired; and an acceptPlayerTrade changes resources only   *)
(* in a step that takes an offer from pending to accepted.                 *)
(***************************************************************************)
C39_FinalStatuses == {"accepted", "rejected", "cancelled", "expired"}

C39_StatusChangesOnce ==
    [][/\ \A i \in DOMAIN activeTrades :
             activeTrades'[i].status # activeTrades[i].status =>
                /\ activeTrades[i].status = "pending"
                /\ activeTrades'[i].status \in C39_FinalStatuses
       /\ (call'.returned = "acceptPlayerTrade" /\ gameState' # gameState) =>
             \E i \in DOMAIN activeTrades :
                /\ activeTrades[i].status = "pending"
                /\ activeTrades'[i].status = "accepted"]_vars

(***************************************************************************)
(* The setup phase with every node of the board as an argument, and for    *)
(* every node the first of its edges (and ids that name nothing).          *)
(***************************************************************************)
SetupEdgeArgs ==
    {CHOOSE e \in EdgesAt(n) : \A f \in EdgesAt(n) : e <= f : n \in NodeIds} \cup {NumEdges}

SetupNext ==
    \/ \E nodeId \in NodeIds \cup {NumNodes} : placeInitialSettlement(nodeId)
    \/ \E edgeId \in SetupEdgeArgs : placeInitialRoad(edgeId)

\* a new game on the board whose desert is the first tile
SetupInit == Init /\ gameState.board.tiles[0].resource = "desert"

SetupSpec == SetupInit /\ [][SetupNext]_vars

(***************************************************************************)
(* C40.  Setup never gets stuck: in every state of the setup phase the     *)
(* action that is due can be taken with some argument (a settlement is     *)
(* due and some node can take it, or a road is due and some unowned edge   *)
(* touches the settlement just placed), fewer than 2N settlements and 2N   *)
(* roads have been placed, and every placement adds one; in the main game  *)
(* exactly 2N settlements and 2N roads have been placed and every player   *)
(* has 2 of each on the board.                                             *)
(***************************************************************************)
C40_Placed(piece) ==
    Cardinality({j \in DOMAIN setupOrder : setupOrder[j][1] = piece})

C40_SetupNeverStuck ==
    /\ gameState.phase = "setup" =>
          /\ Len(setupOrder) < 4 * NumPlayers
          /\ getNextSetupAction(gameState) \in {"place_settlement", "place_road"}
          /\ getNextSetupAction(gameState) = "place_settlement" =>
                \E nodeId \in NodeIds :
                   ENABLED (/\ placeInitialSettlement(nodeId)
                            /\ Len(setupOrder') = Len(setupOrder) + 1)
          /\ getNextSetupAction(gameState) = "place_road" =>
                \E edgeId \in EdgeIds :
                   ENABLED (/\ placeInitialRoad(edgeId)
                            /\ Len(setupOrder') = Len(setupOrder) + 1)
    /\ gameState.phase = "main_game" =>
          /\ C40_Placed("settlement") = 2 * NumPlayers
          /\ C40_Placed("road") = 2 * NumPlayers
          /\ \A p \in PlayerIds :
                /\ Len(gameState.players[p].settlements) = 2
                /\ Len(gameState.players[p].roads) = 2

\* setup has been completed with two settlements of different players as
\* close as the distance rule lets them be: two edges apart
C40_SetupCompletedClosely ==
    /\ gameState.phase = "main_game"
    /\ Len(setupOrder) = 4 * NumPlayers
    /\ \E p, q \in PlayerIds :
          /\ p # q
          /\ \E a \in Range(gameState.players[p].settlements),
                b \in Range(gameState.players[q].settlements) :
                NeighborNodes(a) \cap NeighborNodes(b) # {}


\* the generator has visited every corner in both loops
GenerationFinished == generation.step = 2 * StandardCorners

\* the edges of the generated board as unordered node pairs
GeneratedPairs ==
    {{generation.edges[e][1], generation.edges[e][2]} : e \in DOMAIN generation.edges}

PlayerBuildings(playerId) ==
    Range(gameState.players[playerId].settlements) \cup Range(gameState.players[playerId].cities)

\* the ratio the rule gives a player for a resource on the board as it is
RuleRatio(playerId, resourceType) ==
    IF \E n \in PlayerBuildings(playerId) : NodePort(n) = resourceType THEN 2
    ELSE IF \E n \in PlayerBuildings(playerId) : NodePort(n) = "generic" THEN 3
    ELSE 4

(***************************************************************************)
(* C31: once the port access has been computed, the ratio resolved for a   *)
(* player and a resource is 2 when the player has a settlement or city on  *)
(* a node marked with a port of that resource, else 3 when on a node       *)
(* marked with a generic port, else 4.                                     *)
(***************************************************************************)
C31_PortRatio ==
    call.returned = "initializePortAccess" =>
        \A playerId \in PlayerIds, resourceType \in ResourceSet :
            getBestTradingRatio(playerId, resourceType) = RuleRatio(playerId, resourceType)


\* a command is applied while another waits in an emit
C34_AppliedInsideCommand ==
    /\ suspended # <<>>
    /\ suspended' = suspended
    /\ gameState' # gameState

(***************************************************************************)
(* C34: no command is applied while another is part-way through: when a    *)
(* command issued from a listener changes the state, the command waiting   *)
(* in emit has no state change left to make.                               *)
(***************************************************************************)
C34_OneCommandAtATime ==
    [][C34_AppliedInsideCommand =>
          AfterEmit(suspended[Len(suspended)], gameState) = gameState]_vars


\* the holder of the snapshot writes to it or to something reached from it
C35_HolderWrites ==
    \E playerId \in PlayerIds :
        writeSnapshotProperty(playerId) \/ writeSnapshotPlayer(playerId)

(***************************************************************************)
(* C35: the object getGameState returned is a read-only snapshot: a write  *)
(* of its holder to it, or to anything reached from it, leaves the         *)
(* engine's gameState as it was, and as long as getGameState is not called *)
(* again and the holder does not write, the holder reads the same values   *)
(* from it whatever commands run.                                          *)
(***************************************************************************)
C35_ReadOnlySnapshot ==
    [][/\ C35_HolderWrites => gameState' = gameState
       /\ (snapshot.taken /\ snapshot' = snapshot /\ ~C35_HolderWrites)
             => SnapshotView' = SnapshotView]_vars

====
